---- MODULE Spec2Model ----
(***************************************************************************)
(* Model of the HTML-to-legislation extraction engine of the               *)
(* Ukrainian-law-mcp repository: the print-page parser (Grammar A,         *)
(* parseLawPrintHtml), the container parser (Grammar B,                    *)
(* parseUkrainianHtml) and the ingestion driver (runIngestion).            *)
(*                                                                         *)
(* Text is a sequence of tokens.  A token is one character ("5", ".",      *)
(* " ", "{"), a named character ("NL" = U+000A, "TAB" = U+0009, "NBSP" =   *)
(* U+00A0, "U2010".."U2014" = the Unicode hyphens), or one word that the   *)
(* code's patterns treat as a unit ("Stattya" = the Cyrillic word of the   *)
(* article label, "vyklyucheno" and "vtratyv chynnist" = the repeal        *)
(* markers).  Markup is a token too: "<br>", "<tag>" (any other tag), and  *)
(* the entities "&nbsp;", "&ndash;", ... .  Every pattern of the code is   *)
(* an operator that scans such a sequence the way the regular expression   *)
(* does.                                                                   *)
(***************************************************************************)
EXTENDS Integers, Sequences, FiniteSets, TLC

(***************************************************************************)
(* Character classes                                                       *)
(***************************************************************************)
\* [ \t] of the whitespace patterns
HSpace == {" ", "TAB"}

\* \s and String.prototype.trim, restricted to the tokens of the model
JsSpace == {" ", "TAB", "NL", "NBSP"}

\* \d and [0-9]
Digits == {"0", "1", "2", "3", "4", "5", "6", "7", "8", "9"}

\* HYPHEN_VARIANTS = /[U+2010 U+2011 U+2012 U+2013 U+2014]/g
HYPHEN_VARIANTS == {"U2010", "U2011", "U2012", "U2013", "U2014"}

\* the class [- U+2011 U+2012 U+2013 U+2014] inside the heading pattern
HeadingHyphens == {"-", "U2011", "U2012", "U2013", "U2014"}

\* [IVXLC\d] of the editorial banner patterns
RomanOrDigit == {"I", "V", "X", "L", "C"} \cup Digits

\* ENTITY_MAP: the named entities with a mapping; "" stands for deletion
ENTITY_MAP ==
  [e \in {"&nbsp;", "&amp;", "&lt;", "&gt;", "&quot;", "&apos;",
          "&laquo;", "&raquo;", "&ndash;", "&mdash;", "&shy;"} |->
     CASE e = "&nbsp;"  -> " "
       [] e = "&amp;"   -> "&"
       [] e = "&lt;"    -> "<"
       [] e = "&gt;"    -> ">"
       [] e = "&quot;"  -> "QUOT"
       [] e = "&apos;"  -> "'"
       [] e = "&laquo;" -> "LAQUO"
       [] e = "&raquo;" -> "RAQUO"
       [] e = "&ndash;" -> "U2013"
       [] e = "&mdash;" -> "U2014"
       [] e = "&shy;"   -> ""]

\* numeric character references of the model and their code points
NumericRefs ==
  [e \in {"&#160;", "&#8208;", "&#8209;", "&#x2013;", "&#55296;", "&#x10FFFF;"} |->
     CASE e = "&#160;"   -> "NBSP"
       [] e = "&#8208;"  -> "U2010"
       [] e = "&#8209;"  -> "U2011"
       [] e = "&#x2013;" -> "U2013"
       [] e = "&#55296;" -> "UD800"
       [] e = "&#x10FFFF;" -> "U10FFFF"]

(***************************************************************************)
(* Sequence helpers                                                        *)
(***************************************************************************)
\* s with every element replaced by the tokens F gives for it (maybe none)
FlatMap(s, F(_)) ==
  LET f[i \in 0..Len(s)] == IF i = 0 THEN <<>> ELSE f[i - 1] \o F(s[i])
  IN  f[Len(s)]

\* the elements of s whose index satisfies Keep
KeepIdx(s, Keep(_)) ==
  LET f[i \in 0..Len(s)] ==
        IF i = 0 THEN <<>>
        ELSE IF Keep(i) THEN Append(f[i - 1], s[i]) ELSE f[i - 1]
  IN  f[Len(s)]

\* the first index >= i of s whose element is outside class C (Len(s)+1 if none)
RECURSIVE SkipClass(_, _, _)
SkipClass(s, i, C) ==
  IF i <= Len(s) /\ s[i] \in C THEN SkipClass(s, i + 1, C) ELSE i

\* the last index <= i of s whose element is outside class C (0 if none)
RECURSIVE SkipClassBack(_, _, _)
SkipClassBack(s, i, C) ==
  IF i >= 1 /\ s[i] \in C THEN SkipClassBack(s, i - 1, C) ELSE i

Slice(s, a, b) == IF a > b THEN <<>> ELSE SubSeq(s, a, b)

\* p is a prefix of s
StartsWith(s, p) == Len(p) <= Len(s) /\ SubSeq(s, 1, Len(p)) = p

\* p occurs in s as a contiguous run
Includes(s, p) ==
  \E i \in 1..(Len(s) - Len(p) + 1) : SubSeq(s, i, i + Len(p) - 1) = p

\* all sequences over S of length at most n
SeqsUpTo(S, n) == UNION {[1..k -> S] : k \in 0..n}

\* String.prototype.trim
Trim(s) ==
  LET a == SkipClass(s, 1, JsSpace)
      b == SkipClassBack(s, Len(s), JsSpace)
  IN  Slice(s, a, b)

(***************************************************************************)
(* Normalizer: decodeHtmlEntities, htmlToText, normalizeWhitespace         *)
(***************************************************************************)
\* /\u00a0/g -> ' '
ReplaceNbsp(s) == FlatMap(s, LAMBDA c : IF c = "NBSP" THEN <<" ">> ELSE <<c>>)

\* /[ \t]+\n/g -> '\n'
StripBeforeNL(s) ==
  KeepIdx(s, LAMBDA i :
    ~(s[i] \in HSpace /\ LET j == SkipClass(s, i, HSpace)
                         IN  j <= Len(s) /\ s[j] = "NL"))

\* /\n[ \t]+/g -> '\n'
StripAfterNL(s) ==
  KeepIdx(s, LAMBDA i :
    ~(s[i] \in HSpace /\ LET j == SkipClassBack(s, i, HSpace)
                         IN  j >= 1 /\ s[j] = "NL"))

\* /[ \t]{2,}/g -> ' '
CollapseHSpace(s) ==
  LET f[i \in 0..Len(s)] ==
        IF i = 0 THEN <<>>
        ELSE IF s[i] \notin HSpace THEN Append(f[i - 1], s[i])
        ELSE IF i > 1 /\ s[i - 1] \in HSpace THEN f[i - 1]
        ELSE IF i < Len(s) /\ s[i + 1] \in HSpace THEN Append(f[i - 1], " ")
        ELSE Append(f[i - 1], s[i])
  IN  f[Len(s)]

\* /\n{3,}/g -> '\n\n'
CollapseNL(s) ==
  KeepIdx(s, LAMBDA i : ~(s[i] = "NL" /\ i > 2 /\ s[i - 1] = "NL" /\ s[i - 2] = "NL"))

decodeHtmlEntities(s) ==
  FlatMap(s, LAMBDA c :
    IF c \in DOMAIN ENTITY_MAP
      THEN (IF ENTITY_MAP[c] = "" THEN <<>> ELSE <<ENTITY_MAP[c]>>)
    ELSE IF c \in DOMAIN NumericRefs THEN <<NumericRefs[c]>>
    ELSE <<c>>)

htmlToText(html) ==
  LET s1 == FlatMap(html, LAMBDA c : IF c = "<br>" THEN <<"NL">>
                                      ELSE IF c = "<tag>" THEN <<" ">>
                                      ELSE <<c>>)
      s2 == ReplaceNbsp(s1)
      s3 == StripBeforeNL(s2)
      s4 == StripAfterNL(s3)
      s5 == CollapseHSpace(s4)
  IN  decodeHtmlEntities(Trim(s5))

normalizeWhitespace(text) ==
  Trim(CollapseHSpace(CollapseNL(StripAfterNL(StripBeforeNL(ReplaceNbsp(text))))))

(***************************************************************************)
(* Grammar A: heading recognition and provision building                   *)
(***************************************************************************)
At(s, i) == IF i \in 1..Len(s) THEN s[i] ELSE "EOF"

\* toLowerCase / the i flag, for the word tokens that have an upper-case form
Lower(c) ==
  CASE c = "Vyklyucheno" -> "vyklyucheno"
    [] c = "Vtratyv"     -> "vtratyv"
    [] c = "W5"          -> "w5"
    [] c = "Vyznachennya" -> "vyznachennya"
    [] c = "Terminy"     -> "terminy"
    [] c = "Valid"       -> "valid"
    [] c = "Not yet in force" -> "not yet in force"
    [] OTHER             -> c

\* /^Stattya\s+(\d+)\s*\.\s*-\s*(\d+)\s*\.\s*/u -> 'Stattya $1-$2. '
ReplaceDottedRange(t) ==
  LET p1 == SkipClass(t, 2, JsSpace)
      p2 == SkipClass(t, p1, Digits)
      p3 == SkipClass(t, p2, JsSpace)
      p4 == SkipClass(t, p3 + 1, JsSpace)
      p5 == SkipClass(t, p4 + 1, JsSpace)
      p6 == SkipClass(t, p5, Digits)
      p7 == SkipClass(t, p6, JsSpace)
      p8 == SkipClass(t, p7 + 1, JsSpace)
  IN  IF /\ At(t, 1) = "Stattya" /\ p1 > 2 /\ p2 > p1
         /\ At(t, p3) = "." /\ At(t, p4) = "-"
         /\ p6 > p5 /\ At(t, p7) = "."
        THEN <<"Stattya", " ">> \o Slice(t, p1, p2 - 1) \o <<"-">>
               \o Slice(t, p5, p6 - 1) \o <<".", " ">> \o Slice(t, p8, Len(t))
        ELSE t

\* /^Stattya\s+(\d+)\s*-\s*(\d+)\s*\.\s*/u -> 'Stattya $1-$2. '
ReplaceSpacedRange(t) ==
  LET p1 == SkipClass(t, 2, JsSpace)
      p2 == SkipClass(t, p1, Digits)
      p3 == SkipClass(t, p2, JsSpace)
      p4 == SkipClass(t, p3 + 1, JsSpace)
      p5 == SkipClass(t, p4, Digits)
      p6 == SkipClass(t, p5, JsSpace)
      p7 == SkipClass(t, p6 + 1, JsSpace)
  IN  IF /\ At(t, 1) = "Stattya" /\ p1 > 2 /\ p2 > p1
         /\ At(t, p3) = "-" /\ p5 > p4 /\ At(t, p6) = "."
        THEN <<"Stattya", " ">> \o Slice(t, p1, p2 - 1) \o <<"-">>
               \o Slice(t, p4, p5 - 1) \o <<".", " ">> \o Slice(t, p7, Len(t))
        ELSE t

\* the two chained replaces applied to the block text before matching
NormalizeLabel(t) == ReplaceSpacedRange(ReplaceDottedRange(t))

\* String.prototype.replace(HYPHEN_VARIANTS, '-')
ReplaceHyphenVariants(s) ==
  FlatMap(s, LAMBDA c : IF c \in HYPHEN_VARIANTS THEN <<"-">> ELSE <<c>>)

\* /^Stattya\s+([0-9]+(?:[-U+2011-U+2014][0-9]+)?)\s*\.?\s*(.*)$/u
\* (no s flag: "." does not match a line break, "$" is the end of the text)
headingMatch(t) ==
  LET p1 == SkipClass(t, 2, JsSpace)
      p2 == SkipClass(t, p1, Digits)
      q  == SkipClass(t, p2 + 1, Digits)
      p3 == IF At(t, p2) \in HeadingHyphens /\ q > p2 + 1 THEN q ELSE p2
      p4 == SkipClass(t, p3, JsSpace)
      p5 == IF At(t, p4) = "." THEN p4 + 1 ELSE p4
      p6 == SkipClass(t, p5, JsSpace)
      rest == Slice(t, p6, Len(t))
      ok == /\ At(t, 1) = "Stattya" /\ p1 > 2 /\ p2 > p1
            /\ \A i \in 1..Len(rest) : rest[i] # "NL"
  IN  IF ok THEN [matched |-> TRUE,
                  section |-> ReplaceHyphenVariants(Slice(t, p1, p3 - 1)),
                  heading |-> Trim(rest)]
      ELSE [matched |-> FALSE, section |-> <<>>, heading |-> <<>>]

\* /(?:vyklyucheno|vtratyv chynnist)/iu.test(h)
HasRepealMarker(h) ==
  \E i \in 1..Len(h) :
    \/ Lower(h[i]) = "vyklyucheno"
    \/ /\ Lower(h[i]) = "vtratyv" /\ At(h, i + 1) = " "
       /\ Lower(At(h, i + 2)) = "chynnist"

\* h.replace(/^\{|\}$/g, '').trim()
StripBraces(h) ==
  LET a == IF At(h, 1) = "{" THEN 2 ELSE 1
      b == IF Len(h) >= a /\ h[Len(h)] = "}" THEN Len(h) - 1 ELSE Len(h)
  IN  Trim(Slice(h, a, b))

\* lines.join('\n')
RECURSIVE JoinLines(_)
JoinLines(lines) ==
  IF lines = <<>> THEN <<>>
  ELSE IF Len(lines) = 1 THEN lines[1]
  ELSE lines[1] \o <<"NL">> \o JoinLines(Tail(lines))

\* buildProvision without the repeal placeholder: the content is the body
buildProvisionBodyOnly(section, heading, lines) ==
  LET headingNormalized == normalizeWhitespace(heading)
      body == normalizeWhitespace(JoinLines(lines))
      normalizedSection == ReplaceHyphenVariants(section)
  IN  IF body = <<>> THEN <<>>
      ELSE << [provision_ref |-> <<"art">> \o normalizedSection,
               section |-> normalizedSection,
               title |-> IF headingNormalized # <<>>
                           THEN Trim(<<"Stattya", " ">> \o normalizedSection
                                     \o <<".", " ">> \o headingNormalized)
                           ELSE <<"Stattya", " ">> \o normalizedSection,
               content |-> body] >>

\* buildProvision: the provisions it yields, none for the null result
buildProvision(section, heading, lines) ==
  LET headingNormalized == normalizeWhitespace(heading)
      body == normalizeWhitespace(JoinLines(lines))
      content == IF body = <<>> /\ HasRepealMarker(headingNormalized)
                   THEN StripBraces(headingNormalized) ELSE body
      normalizedSection == ReplaceHyphenVariants(section)
  IN  IF content = <<>> THEN <<>>
      ELSE << [provision_ref |-> <<"art">> \o normalizedSection,
               section |-> normalizedSection,
               title |-> IF headingNormalized # <<>>
                           THEN Trim(<<"Stattya", " ">> \o normalizedSection
                                     \o <<".", " ">> \o headingNormalized)
                           ELSE <<"Stattya", " ">> \o normalizedSection,
               content |-> content] >>

\* text.startsWith('{') && text.endsWith('}')
IsBracedNote(t) == t # <<>> /\ t[1] = "{" /\ t[Len(t)] = "}"

\* the editorial line pattern tested on blocks inside an open article
IsEditorialLine(t) ==
  \/ /\ At(t, 1) = "{"
     /\ \E j \in 2..Len(t) : t[j] = "}" /\ \A k \in 2..(j - 1) : t[k] # "NL"
  \/ StartsWith(t, <<"Prezydent", " ", "Ukrainy">>)
  \/ StartsWith(t, <<"Iz", " ", "zminamy,", " ", "vnesenymy">>)
  \/ /\ At(t, 1) \in {"Rozdil", "KNYHA"}
     /\ SkipClass(t, 2, JsSpace) > 2
     /\ At(t, SkipClass(t, 2, JsSpace)) \in RomanOrDigit
  \/ At(t, 1) = "m." /\ At(t, SkipClass(t, 2, JsSpace)) = "Kyiv"
  \/ At(t, 1) = "No" /\ At(t, SkipClass(t, 2, JsSpace)) \in Digits

(***************************************************************************)
(* Grammar A: parseLawPrintHtml                                            *)
(*                                                                         *)
(* A print page is [hasContainer, blocks]: whether it holds the            *)
(* <div id="article"> container, and the items that follow the container   *)
(* in document order.  An item is the inner HTML of one <p>/<pre> block,   *)
(* or the one-token item <<"<h2pub>">>, the "publications" heading that    *)
(* ends the article area.                                                  *)
(***************************************************************************)
NoArticle == [open |-> FALSE, section |-> <<>>, heading |-> <<>>, lines |-> <<>>]

PubMarker == <<"<h2pub>">>

\* the two replaces at the end of extractArticleArea, on one block
CleanBlock(inner) ==
  FlatMap(inner, LAMBDA c : IF c = "<span0>-</span>" THEN <<"-">>
                            ELSE IF c = "<a name>" THEN <<>>
                            ELSE <<c>>)

\* extractArticleArea after the container was found: the blocks before the
\* first publications marker, cleaned
extractArticleArea(blocks) ==
  LET cut == IF \E i \in 1..Len(blocks) : blocks[i] = PubMarker
               THEN (CHOOSE i \in 1..Len(blocks) :
                       /\ blocks[i] = PubMarker
                       /\ \A j \in 1..(i - 1) : blocks[j] # PubMarker) - 1
               ELSE Len(blocks)
  IN  [i \in 1..cut |-> CleanBlock(blocks[i])]

\* the article area as one HTML fragment: the container tag, then every
\* block between its opening and closing tag
AreaHtml(area) ==
  <<"<tag>">> \o FlatMap(area, LAMBDA b : <<"<tag>">> \o b \o <<"<tag>">>)

\* one iteration of the paragraph loop, on the state [current, articles]
ParagraphStep(st, inner) ==
  LET text0 == htmlToText(inner)
      text == NormalizeLabel(text0)
      hm == headingMatch(text)
  IN  IF text0 = <<>> THEN st
      ELSE IF IsBracedNote(text0) THEN st
      ELSE IF hm.matched
        THEN [current |-> [open |-> TRUE, section |-> hm.section,
                           heading |-> hm.heading, lines |-> <<>>],
              articles |-> st.articles \o
                 (IF st.current.open
                    THEN buildProvision(st.current.section, st.current.heading,
                                        st.current.lines)
                    ELSE <<>>)]
      ELSE IF ~st.current.open THEN st
      ELSE IF IsEditorialLine(text) THEN st
      ELSE [st EXCEPT !.current.lines = Append(@, text)]

\* no flush: the article open at the end of the stream is lost
DropCurrent(st) == st.articles

\* the flush of the open article after the loop
FlushCurrent(st) ==
  IF st.current.open
    THEN st.articles \o buildProvision(st.current.section, st.current.heading,
                                       st.current.lines)
    ELSE st.articles

\* no fallback: the articles as they are
NoFallback(arts, area) == arts

\* the whole-document fallback when no article was produced
WithFallback(arts, area) ==
  LET fullBody == normalizeWhitespace(htmlToText(AreaHtml(area)))
  IN  IF arts = <<>> /\ fullBody # <<>>
        THEN << [provision_ref |-> <<"art", "0">>,
                 section |-> <<"0">>,
                 title |-> <<"Stattya", " ", "0", ".", " ", "Tekst", " ", "dokumenta">>,
                 content |-> fullBody] >>
        ELSE arts

\* law.articleFilter ? articles.filter(p => filter.includes(p.section)) : articles
ApplyFilter(arts, law) ==
  IF law.hasFilter
    THEN KeepIdx(arts, LAMBDA i : arts[i].section \in law.articleFilter)
    ELSE arts

\* what follows the loop: flush, fallback, allow-list
FinishParse(st, area, law) ==
  [provisions |-> ApplyFilter(WithFallback(FlushCurrent(st), area), law)]

RECURSIVE ParagraphLoop(_, _, _)
ParagraphLoop(st, area, i) ==
  IF i > Len(area) THEN st
  ELSE ParagraphLoop(ParagraphStep(st, area[i]), area, i + 1)

\* parseLawPrintHtml as a function of its input; Thrown when the container is missing
Thrown == [thrown |-> TRUE]

parseLawPrintHtml(printHtml, law) ==
  IF ~printHtml.hasContainer THEN Thrown
  ELSE LET area == extractArticleArea(printHtml.blocks)
       IN  FinishParse(ParagraphLoop([current |-> NoArticle, articles |-> <<>>], area, 1),
                       area, law)

(***************************************************************************)
(* Grammar B: parseUkrainianHtml                                           *)
(*                                                                         *)
(* An ELI page is the sequence of its <div class="unit unit_arti">         *)
(* containers in document order.  A container is [segs, artNum, heading,   *)
(* body]: the number of "arti_" segments of its id attribute, the number   *)
(* of its data-id attribute, the tokens between "<h3><B>Art." and          *)
(* "</B></h3>" of its heading (<<>>: no heading), and the HTML that        *)
(* follows up to the next container.                                       *)
(***************************************************************************)
LowerLetters == {"a", "b", "c", "x"}

\* \w, for the boundary test \b
WordChars == Digits \cup LowerLetters \cup {"_", "I", "V", "X", "L", "C"}

\* length in characters of a token of Grammar B text
TokLen(c) ==
  CASE c = "Art."    -> 4
    [] c = "&ndash;" -> 7
    [] c = "&#160;"  -> 6
    [] c = "x6000"   -> 6000
    [] c = "w139"    -> 139
    [] c = "w98"     -> 98
    [] c \in {"w5", "W5"} -> 5
    [] c = "w7"      -> 7
    [] c = "w4"      -> 4
    [] c = "dali"    -> 4
    [] c = "oznacza" -> 7
    [] c = "&nbsp;"  -> 6
    [] c = "Rozdzial" -> 8
    [] c \in {"Dzial", "dzial", "</h3>", "Title"} -> 5
    [] c \in {"<h3>", "</P>"} -> 4
    [] c = "<SPAN class=pro-title-unit>" -> 29
    [] c = "</SPAN>" -> 7
    [] c = "f20"     -> 20
    [] c \in {"<span class=valid>", "<span class=label>"} -> 20
    [] c = "<span class=invalid>" -> 22
    [] c \in {"<span class=notvalid>", "<span class=obsolete>", "<span class=disabled>"} -> 23
    [] c = "<span class=doc-valid>" -> 24
    [] c \in {"Document", "repealed", "nechynnyi"} -> 8
    [] c = "chynnyi" -> 6
    [] c \in {"Valid", "valid"} -> 5
    [] c = "text"    -> 4
    [] c = "<b>"     -> 3
    [] c \in {"Not yet in force", "not yet in force"} -> 16
    [] c = "ne nabrav chynnosti" -> 18
    [] c = "g150"    -> 150
    [] c = "g201"    -> 201
    [] c = "f9982"   -> 9982
    [] c = "f9990"   -> 9990
    [] c = "f10000"  -> 10000
    [] OTHER         -> 1

RECURSIVE TextLen(_)
TextLen(s) == IF s = <<>> THEN 0 ELSE TokLen(Head(s)) + TextLen(Tail(s))

\* /\s+/g -> ' '
CollapseSpace(s) ==
  LET f[i \in 0..Len(s)] ==
        IF i = 0 THEN <<>>
        ELSE IF s[i] \notin JsSpace THEN Append(f[i - 1], s[i])
        ELSE IF i > 1 /\ s[i - 1] \in JsSpace THEN f[i - 1]
        ELSE Append(f[i - 1], " ")
  IN  f[Len(s)]

\* stripHtml: tags to spaces, the seven entity replaces, whitespace collapsed
stripHtml(html) ==
  LET s1 == FlatMap(html, LAMBDA c :
              IF c \in {"<tag>", "<br>", "</B></h3>"} THEN <<" ">>
              ELSE IF c = "<h3><B>Art." THEN <<" ", " ", "Art.">>
              ELSE <<c>>)
      s2 == FlatMap(s1, LAMBDA c :
              CASE c = "&nbsp;" -> <<" ">>
                [] c = "&amp;"  -> <<"&">>
                [] c = "&lt;"   -> <<"<">>
                [] c = "&gt;"   -> <<">">>
                [] c = "&quot;" -> <<"QUOT">>
                [] c = "&#39;"  -> <<"'">>
                [] c = "&shy;"  -> <<>>
                [] c = "NBSP"   -> <<" ">>
                [] OTHER        -> <<c>>)
  IN  Trim(CollapseSpace(s2))

\* the HTML of one container: its opening tag, its heading, its body
ContainerHtml(c) ==
  <<"<tag>">>
    \o (IF c.heading = <<>> THEN <<>> ELSE <<"<h3><B>Art.">> \o c.heading \o <<"</B></h3>">>)
    \o c.body

\* html.substring(startPos, endPos) for the containers a..b of the page
SpanHtml(html, a, b) ==
  LET f[i \in (a - 1)..b] == IF i = a - 1 THEN <<>> ELSE f[i - 1] \o ContainerHtml(html[i])
  IN  f[b]

\* the end of "\s*&nbsp;?\s*" started at i
SkipNbspGap(s, i) ==
  LET a == SkipClass(s, i, JsSpace)
      b == IF At(s, a) = "&nbsp;" THEN a + 1 ELSE a
  IN  SkipClass(s, b, JsSpace)

\* /<h3[^>]*>\s*<B[^>]*>\s*Art\.?\s*&nbsp;?\s*(\d+[a-z]*)\b/i at heading token k:
\* [matched, num]
HeadingNumAt(s, k) ==
  LET a == SkipNbspGap(s, k + 1)
      b == SkipClass(s, a, Digits)
      c == SkipClass(s, b, LowerLetters)
  IN  IF At(s, k) = "<h3><B>Art." /\ b > a /\ At(s, c) \notin WordChars
        THEN [matched |-> TRUE, num |-> Slice(s, a, c - 1)]
        ELSE [matched |-> FALSE, num |-> <<>>]

\* the first match of the heading-number pattern in s
artHeadingMatch(s) ==
  IF \E k \in 1..Len(s) : HeadingNumAt(s, k).matched
    THEN HeadingNumAt(s, CHOOSE k \in 1..Len(s) :
                            /\ HeadingNumAt(s, k).matched
                            /\ \A j \in 1..(k - 1) : ~HeadingNumAt(s, j).matched)
    ELSE [matched |-> FALSE, num |-> <<>>]

\* the end of a whole heading element that starts at token k, 0 if none:
\* ...Art\.?\s*&nbsp;?\s*\d+[a-z]*\.?\s*<\/B>\s*<\/h3>
HeadingEndAt(s, k) ==
  LET a == SkipNbspGap(s, k + 1)
      b == SkipClass(s, a, Digits)
      c == SkipClass(s, b, LowerLetters)
      d == IF At(s, c) = "." THEN c + 1 ELSE c
      e == SkipClass(s, d, JsSpace)
  IN  IF At(s, k) = "<h3><B>Art." /\ b > a /\ At(s, e) = "</B></h3>" THEN e ELSE 0

\* articleHtml.replace(<the heading element>, ''): the first one only
RemoveHeading(s) ==
  IF \E k \in 1..Len(s) : HeadingEndAt(s, k) > 0
    THEN LET k == CHOOSE k \in 1..Len(s) :
                    /\ HeadingEndAt(s, k) > 0
                    /\ \A j \in 1..(k - 1) : HeadingEndAt(s, j) = 0
         IN  Slice(s, 1, k - 1) \o Slice(s, HeadingEndAt(s, k) + 1, Len(s))
    ELSE s

\* s.replace(/_/g, '')
RemoveUnderscores(s) == FlatMap(s, LAMBDA c : IF c = "_" THEN <<>> ELSE <<c>>)

ContentCap == 12000

MinContent == 5

\* no cut: the text as it is
Substring0Whole(s, n) == s

\* content.substring(0, n); the inputs put position n between two tokens
RECURSIVE Substring0(_, _)
Substring0(s, n) ==
  IF s = <<>> \/ TokLen(Head(s)) > n THEN <<>>
  ELSE <<Head(s)>> \o Substring0(Tail(s), n - TokLen(Head(s)))

\* the first loop without the segment count: every container is an article
CollectStepAll(starts, html, i) == Append(starts, i)

\* the first loop: the positions of the containers with one "arti_" segment
CollectStep(starts, html, i) ==
  IF html[i].segs > 1 THEN starts ELSE Append(starts, i)

\* the iteration without the length test: every article yields a provision
ArticleStepNoMin(html, starts, i) ==
  LET startPos == starts[i]
      endPos == IF i + 1 <= Len(starts) THEN starts[i + 1] - 1 ELSE Len(html)
      articleHtml == SpanHtml(html, startPos, endPos)
      hm == artHeadingMatch(articleHtml)
      artNum == IF hm.matched THEN Trim(hm.num)
                ELSE RemoveUnderscores(html[startPos].artNum)
      normalizedNum == RemoveUnderscores(artNum)
      content == stripHtml(RemoveHeading(articleHtml))
  IN  << [provision_ref |-> <<"art">> \o normalizedNum,
          section |-> normalizedNum,
          title |-> <<"Art.", " ">> \o normalizedNum,
          content |-> content] >>

\* one iteration of the second loop: the provisions article i of starts yields
ArticleStep(html, starts, i) ==
  LET startPos == starts[i]
      endPos == IF i + 1 <= Len(starts) THEN starts[i + 1] - 1 ELSE Len(html)
      articleHtml == SpanHtml(html, startPos, endPos)
      hm == artHeadingMatch(articleHtml)
      artNum == IF hm.matched THEN Trim(hm.num)
                ELSE RemoveUnderscores(html[startPos].artNum)
      normalizedNum == RemoveUnderscores(artNum)
      content == stripHtml(RemoveHeading(articleHtml))
  IN  IF TextLen(content) < MinContent THEN <<>>
      ELSE << [provision_ref |-> <<"art">> \o normalizedNum,
               section |-> normalizedNum,
               title |-> <<"Art.", " ">> \o normalizedNum,
               content |-> IF TextLen(content) > ContentCap
                             THEN Substring0(content, ContentCap) ELSE content] >>

RECURSIVE CollectLoop(_, _, _)
CollectLoop(starts, html, i) ==
  IF i > Len(html) THEN starts ELSE CollectLoop(CollectStep(starts, html, i), html, i + 1)

RECURSIVE ArticleLoop(_, _, _, _)
ArticleLoop(provs, html, starts, i) ==
  IF i > Len(starts) THEN provs
  ELSE ArticleLoop(provs \o ArticleStep(html, starts, i), html, starts, i + 1)

parseUkrainianHtml(html) ==
  [provisions |-> ArticleLoop(<<>>, html, CollectLoop(<<>>, html, 1), 1)]

(***************************************************************************)
(* Inputs                                                                  *)
(***************************************************************************)
MaxBlocks == 3

MaxContainers == 2

BodyBlock == <<"Body", " ", "text">>

\* the blocks the documents of several blocks are made of
CoreBlocks ==
  { <<"Stattya", " ", "5", ".", " ", "Heading">>,
    <<"Stattya", " ", "1">>,
    <<"Stattya", " ", "5", "-", "1", ".">>,
    <<"Stattya", " ", "5", ".", " ", "{", "Stattyu", " ", "vyklyucheno", "}">>,
    <<"Stattya", " ", "5", ".", " ", "Heading", "<br>", "Body", " ", "text">>,
    BodyBlock,
    <<"&nbsp;">>,
    <<"{", "Iz", " ", "zminamy", "}">>,
    <<"Rozdil", " ", "I">>,
    <<>>,
    PubMarker }

\* what may stand between the two numbers of a heading label
LabelSeparators ==
  {<<h>> : h \in {"-"} \cup HYPHEN_VARIANTS}
    \cup { <<"&ndash;">>, <<"&#8208;">>, <<"&#8209;">>, <<" ", "-", " ">>,
           <<".", " ", "-", " ">>, <<"<span0>-</span>">> }

\* heading blocks "Stattya 5<sep>1[.][ tail]"
RangeHeadings ==
  { <<"Stattya">> \o ws \o <<"5">> \o sep \o <<"1">> \o dot \o tail :
      ws \in {<<" ">>, <<"<tag>">>},
      sep \in LabelSeparators,
      dot \in {<<>>, <<".">>},
      tail \in {<<>>, <<" ", "Heading">>, <<" ", "Vtratyv", " ", "chynnist">>} }

BlockLists ==
  SeqsUpTo(CoreBlocks, MaxBlocks)
    \cup {<<h>> : h \in RangeHeadings}
    \cup {<<h, BodyBlock>> : h \in RangeHeadings}

PrintPages ==
  [hasContainer : {TRUE}, blocks : BlockLists]
    \cup [hasContainer : {FALSE}, blocks : SeqsUpTo(CoreBlocks, 1)]

\* caller configurations: no allow-list, and two allow-lists
Laws ==
  { [hasFilter |-> FALSE, articleFilter |-> {}],
    [hasFilter |-> TRUE, articleFilter |-> {<<"5">>}],
    [hasFilter |-> TRUE, articleFilter |-> {<<"0">>, <<"5", "-", "1">>}] }

NoLaw == [hasFilter |-> FALSE, articleFilter |-> {}]

Containers ==
  [segs : {1, 2},
   artNum : {<<"5">>, <<"2", "_", "2">>},
   heading : {<<>>, <<" ", "5", ".">>},
   body : { <<"a", "b", "c", " ", "x", "x">>,
            <<"a", "b">>,
            <<"&nbsp;", " ", "<tag>", "NBSP", "&shy;", "<br>">> }]

\* containers with more than ContentCap characters of text
LongContainers ==
  [segs : {1}, artNum : {<<"5">>}, heading : {<<>>, <<" ", "5", ".">>},
   body : { <<"x6000", "x6000", "a", "b">>, <<"x6000", "x6000", " ", "a", "b", "c">> }]

\* what follows a long container on a page
AfterLong ==
  [segs : {1, 2}, artNum : {<<"2", "_", "2">>}, heading : {<<" ", "5", ".">>},
   body : { <<"a", "b", "c", " ", "x", "x">> }]

EliPages ==
  SeqsUpTo(Containers, MaxContainers)
    \cup {<<c>> : c \in LongContainers}
    \cup {<<c, d>> : c \in LongContainers, d \in AfterLong}

(***************************************************************************)
(* One parse call, step by step                                            *)
(***************************************************************************)
VARIABLES grammar, doc, law, pc, pos, area, current, articles, articleStarts, act

parseVars == <<grammar, doc, law, pc, pos, area, current, articles, articleStarts, act>>

NoAct == [provisions |-> <<>>]

InitParse ==
  /\ grammar \in {"A", "B"}
  /\ IF grammar = "A"
       THEN doc \in PrintPages /\ law \in Laws
       ELSE doc \in EliPages /\ law = NoLaw
  /\ pc = "start"
  /\ pos = 0
  /\ area = <<>>
  /\ current = NoArticle
  /\ articles = <<>>
  /\ articleStarts = <<>>
  /\ act = NoAct

\* parseLawPrintHtml up to the loop: extractArticleArea finds the container or throws
LocateContainer ==
  /\ pc = "start" /\ grammar = "A"
  /\ IF doc.hasContainer
       THEN area' = extractArticleArea(doc.blocks) /\ pc' = "scan"
       ELSE area' = area /\ pc' = "thrown"
  /\ UNCHANGED <<grammar, doc, law, pos, current, articles, articleStarts, act>>

\* one iteration of the paragraph loop
ParagraphIter ==
  /\ pc = "scan" /\ pos < Len(area)
  /\ LET st == ParagraphStep([current |-> current, articles |-> articles], area[pos + 1])
     IN  current' = st.current /\ articles' = st.articles
  /\ pos' = pos + 1
  /\ UNCHANGED <<grammar, doc, law, pc, area, articleStarts, act>>

\* after the loop: the open article, if any, is finalized
FlushLast ==
  /\ pc = "scan" /\ pos = Len(area)
  /\ articles' = FlushCurrent([current |-> current, articles |-> articles])
  /\ current' = NoArticle
  /\ pc' = "flushed"
  /\ UNCHANGED <<grammar, doc, law, pos, area, articleStarts, act>>

\* fallback, allow-list, return
ReturnActA ==
  /\ pc = "flushed"
  /\ act' = [provisions |-> ApplyFilter(WithFallback(articles, area), law)]
  /\ pc' = "done"
  /\ UNCHANGED <<grammar, doc, law, pos, area, current, articles, articleStarts>>

\* parseUkrainianHtml: one iteration of the container scan
CollectIter ==
  /\ grammar = "B" /\ pc \in {"start", "collect"} /\ pos < Len(doc)
  /\ articleStarts' = CollectStep(articleStarts, doc, pos + 1)
  /\ pos' = pos + 1
  /\ pc' = "collect"
  /\ UNCHANGED <<grammar, doc, law, area, current, articles, act>>

\* the container scan is over
CollectDone ==
  /\ grammar = "B" /\ pc \in {"start", "collect"} /\ pos = Len(doc)
  /\ pc' = "emit"
  /\ pos' = 0
  /\ UNCHANGED <<grammar, doc, law, area, current, articles, articleStarts, act>>

\* one iteration of the article loop
ArticleIter ==
  /\ pc = "emit" /\ pos < Len(articleStarts)
  /\ articles' = articles \o ArticleStep(doc, articleStarts, pos + 1)
  /\ pos' = pos + 1
  /\ UNCHANGED <<grammar, doc, law, pc, area, current, articleStarts, act>>

ReturnActB ==
  /\ pc = "emit" /\ pos = Len(articleStarts)
  /\ act' = [provisions |-> articles]
  /\ pc' = "done"
  /\ UNCHANGED <<grammar, doc, law, pos, area, current, articles, articleStarts>>

(***************************************************************************)
(* Several parse calls in a row.  The loop variables (the paragraph and    *)
(* article patterns with their lastIndex, current, articles,               *)
(* articleStarts, provisions) are locals of the call, created anew by      *)
(* every call; HYPHEN_VARIANTS is the one pattern object shared by all     *)
(* calls, and it is only handed to String.prototype.replace, which starts  *)
(* at index 0 and leaves lastIndex at 0.  remembered keeps the input and   *)
(* the outcome of one earlier call.                                        *)
(***************************************************************************)
VARIABLE remembered

NotRemembered == [set |-> FALSE]

\* the calls started after the remembered one are counted up to MaxLater
MaxLater == 2

\* the call that is running or has just ended, and how it ended
CallInput == [grammar |-> grammar, doc |-> doc, law |-> law]

CallOutcome == [pc |-> pc, act |-> act]

CallEnded == pc \in {"done", "thrown"}

\* the ended call is kept for a later comparison
RememberCall ==
  /\ CallEnded
  /\ remembered' = [set |-> TRUE, input |-> CallInput, outcome |-> CallOutcome,
                    later |-> 0]
  /\ UNCHANGED parseVars

\* locals that outlive the call: the provisions of the call before are kept
StaleLocals ==
  [pos |-> 0, area |-> <<>>, current |-> NoArticle, articles |-> articles,
   articleStarts |-> <<>>, act |-> NoAct]

\* the locals of a call that starts
FreshLocals ==
  [pos |-> 0, area |-> <<>>, current |-> NoArticle, articles |-> <<>>,
   articleStarts |-> <<>>, act |-> NoAct]

\* the pages and configurations of the calls
CallBlocks ==
  { <<"Stattya", " ", "5", ".", " ", "Heading">>,
    <<"Stattya", " ", "5", "U2013", "1", ".", " ", "{", "Stattyu", " ", "vyklyucheno", "}">>,
    BodyBlock }

CallPages ==
  [hasContainer : {TRUE}, blocks : SeqsUpTo(CallBlocks, MaxBlocks - 1)]
    \cup {[hasContainer |-> FALSE, blocks |-> <<>>]}

CallEliPages ==
  SeqsUpTo({c \in Containers : /\ c.artNum = <<"5">> /\ c.heading # <<>>
                                /\ c.body # <<"a", "b">>
                                /\ (c.segs = 2 => Len(c.body) = 6)}, MaxContainers)

\* the caller invokes a parser again, on any input
NewCall ==
  /\ CallEnded
  /\ grammar' \in {"A", "B"}
  /\ IF grammar' = "A"
       THEN doc' \in CallPages /\ law' \in Laws
       ELSE doc' \in CallEliPages /\ law' = NoLaw
  /\ pc' = "start"
  /\ pos' = FreshLocals.pos
  /\ area' = FreshLocals.area
  /\ current' = FreshLocals.current
  /\ articles' = FreshLocals.articles
  /\ articleStarts' = FreshLocals.articleStarts
  /\ act' = FreshLocals.act
  /\ remembered' = IF remembered.set /\ remembered.later < MaxLater
                     THEN [remembered EXCEPT !.later = @ + 1]
                     ELSE remembered

InitCalls ==
  /\ grammar \in {"A", "B"}
  /\ IF grammar = "A"
       THEN doc \in CallPages /\ law \in Laws
       ELSE doc \in CallEliPages /\ law = NoLaw
  /\ pc = "start"
  /\ pos = 0
  /\ area = <<>>
  /\ current = NoArticle
  /\ articles = <<>>
  /\ articleStarts = <<>>
  /\ act = NoAct

(***************************************************************************)
(* The ingestion driver: main and runIngestion of scripts/ingest.ts        *)
(***************************************************************************)
MaxLaws == 3

\* seed files of the seed directory that belong to no law of the run
MaxStrays == 1

VARIABLES ingPc, ingLaws, resume, idx, stats, seedFiles, fetched, failureLog

ingestVars == <<ingPc, ingLaws, resume, idx, stats, seedFiles, fetched, failureLog>>

SeedAbsent == [state |-> "absent"]

SeedOld == [state |-> "old"]

NotFetched == [outcome |-> "none", printHtml |-> [hasContainer |-> FALSE, blocks |-> <<>>]]

\* the pages the portal may serve
IngestPages ==
  { [hasContainer |-> FALSE, blocks |-> <<>>],
    [hasContainer |-> TRUE, blocks |-> <<>>],
    [hasContainer |-> TRUE, blocks |-> << <<"&nbsp;">> >>],
    [hasContainer |-> TRUE, blocks |-> << BodyBlock >>],
    [hasContainer |-> TRUE,
     blocks |-> << <<"Stattya", " ", "5", ".", " ", "Heading">>, BodyBlock >>] }

IngestLawConfigs ==
  { [hasFilter |-> FALSE, articleFilter |-> {}],
    [hasFilter |-> TRUE, articleFilter |-> {<<"5">>}] }

\* the failure messages
MsgNoArticleBody == "Could not find article body in /print HTML"

MsgNoProvisions == "No provisions extracted"

MsgHttp == "Print fetch failed: HTTP"

MsgNetwork == "Failed to fetch"

InitIngest ==
  /\ ingLaws \in UNION {[1..n -> IngestLawConfigs] : n \in 1..MaxLaws}
  /\ resume \in BOOLEAN
  /\ seedFiles \in [1..(Len(ingLaws) + MaxStrays) -> {SeedAbsent, SeedOld}]
  /\ ingPc = "main"
  /\ idx = 0
  /\ stats = [processed |-> 0, skipped |-> 0, failed |-> 0, totalProvisions |-> 0]
  /\ fetched = NotFetched
  /\ failureLog = <<>>

\* main without the test of args.resume: the seed files are always deleted
ClearSeedsAlways ==
  /\ ingPc = "main"
  /\ seedFiles' = [k \in DOMAIN seedFiles |-> SeedAbsent]
  /\ ingPc' = "loop"
  /\ UNCHANGED <<ingLaws, resume, idx, stats, fetched, failureLog>>

\* main: if (!args.resume) clearExistingSeedFiles(); then runIngestion
ClearSeeds ==
  /\ ingPc = "main"
  /\ seedFiles' = IF resume THEN seedFiles ELSE [k \in DOMAIN seedFiles |-> SeedAbsent]
  /\ ingPc' = "loop"
  /\ UNCHANGED <<ingLaws, resume, idx, stats, fetched, failureLog>>

\* a loop that ends with the first law it handles
AfterLawStops == "summary"

\* the loop head after law idx: the next law, or the summary
AfterLaw == IF idx + 1 < Len(ingLaws) THEN "loop" ELSE "summary"

\* if (args.resume && fs.existsSync(seedPath)) { stats.skipped++; continue; }
ResumeSkip ==
  /\ ingPc = "loop" /\ idx < Len(ingLaws)
  /\ resume /\ seedFiles[idx + 1] # SeedAbsent
  /\ stats' = [stats EXCEPT !.skipped = @ + 1]
  /\ idx' = idx + 1
  /\ ingPc' = AfterLaw
  /\ UNCHANGED <<ingLaws, resume, seedFiles, fetched, failureLog>>

\* ingestOneLaw up to the end of fetchLawHtml: the pages, or an exception
FetchLaw ==
  /\ ingPc = "loop" /\ idx < Len(ingLaws)
  /\ ~(resume /\ seedFiles[idx + 1] # SeedAbsent)
  /\ \/ \E page \in IngestPages : fetched' = [outcome |-> "ok", printHtml |-> page]
     \/ \E why \in {"http", "network"} :
          fetched' = [outcome |-> why, printHtml |-> NotFetched.printHtml]
  /\ ingPc' = "fetched"
  /\ UNCHANGED <<ingLaws, resume, idx, stats, seedFiles, failureLog>>

\* a catch block that logs the failure and does not count it
SwallowFailure(msg) ==
  /\ stats' = stats
  /\ failureLog' = Append(failureLog, [law |-> idx + 1, msg |-> msg])
  /\ seedFiles' = seedFiles

\* the catch block: stats.failed++, appendFailureLog
CatchFailure(msg) ==
  /\ stats' = [stats EXCEPT !.failed = @ + 1]
  /\ failureLog' = Append(failureLog, [law |-> idx + 1, msg |-> msg])
  /\ seedFiles' = seedFiles

\* no test of the provision count: an empty Act is accepted
AcceptsEmptyAct(parsed) == FALSE

\* if (parsed.provisions.length === 0) throw new Error('No provisions extracted')
ThrowsNoProvisions(parsed) == Len(parsed.provisions) = 0

\* the rest of the try block and the catch block, then the next iteration
HandleLaw ==
  /\ ingPc = "fetched"
  /\ IF fetched.outcome # "ok"
       THEN CatchFailure(IF fetched.outcome = "http" THEN MsgHttp ELSE MsgNetwork)
       ELSE LET parsed == parseLawPrintHtml(fetched.printHtml, ingLaws[idx + 1])
            IN  IF parsed = Thrown THEN CatchFailure(MsgNoArticleBody)
                ELSE IF ThrowsNoProvisions(parsed) THEN CatchFailure(MsgNoProvisions)
                ELSE /\ seedFiles' = [seedFiles EXCEPT ![idx + 1] =
                                        [state |-> "written", act |-> parsed]]
                     /\ stats' = [stats EXCEPT
                                    !.processed = @ + 1,
                                    !.totalProvisions = @ + Len(parsed.provisions)]
                     /\ failureLog' = failureLog
  /\ idx' = idx + 1
  /\ ingPc' = AfterLaw
  /\ UNCHANGED <<ingLaws, resume, fetched>>

\* the loop is over: the summary is printed
PrintSummary ==
  /\ ingPc = "summary"
  /\ ingPc' = "done"
  /\ UNCHANGED <<ingLaws, resume, idx, stats, seedFiles, fetched, failureLog>>

\* the parts of the state a specification does not use
ParseIdle ==
  /\ grammar = "A" /\ doc = [hasContainer |-> FALSE, blocks |-> <<>>] /\ law = NoLaw
  /\ pc = "idle" /\ pos = 0 /\ area = <<>> /\ current = NoArticle
  /\ articles = <<>> /\ articleStarts = <<>> /\ act = NoAct

IngestIdle ==
  /\ ingPc = "idle" /\ ingLaws = <<>> /\ resume = FALSE /\ idx = 0
  /\ stats = [processed |-> 0, skipped |-> 0, failed |-> 0, totalProvisions |-> 0]
  /\ seedFiles = <<>> /\ fetched = NotFetched /\ failureLog = <<>>

(***************************************************************************)
(* Definitions, Grammar A: extractDefinitions of part_002                  *)
(*                                                                         *)
(* "w5", "w7", "w139" stand for words of 5, 7 and 139 letters, "W5" for    *)
(* "w5" with a capital; "vyznachennya", "terminiv" hold the stems of the   *)
(* title test, "dali" the word of the cross-reference test.                *)
(***************************************************************************)
\* ["' LAQUO RAQUO] of the term trimming
TermQuotes == {"QUOT", "'", "LAQUO", "RAQUO"}

\* [U+2014 -] of the line pattern
LineDashes == {"-", "U2014"}

\* s.toLowerCase()
toLowerCase(s) == [i \in 1..Len(s) |-> Lower(s[i])]

\* content.split('\n')
RECURSIVE SplitLines(_)
SplitLines(s) ==
  IF \A i \in 1..Len(s) : s[i] # "NL" THEN <<s>>
  ELSE LET k == CHOOSE i \in 1..Len(s) : s[i] = "NL" /\ \A j \in 1..(i - 1) : s[j] # "NL"
       IN  <<Slice(s, 1, k - 1)>> \o SplitLines(Slice(s, k + 1, Len(s)))

\* /vyznachennya|termin/i.test(title) || /terminy vzhyvayutsya|vyznacheno takym chynom/i.test(content)
isDefinitionArticle(provision) ==
  \/ \E i \in 1..Len(provision.title) :
       Lower(provision.title[i]) \in {"vyznachennya", "terminiv", "terminy"}
  \/ Includes(toLowerCase(provision.content), <<"terminy", " ", "vzhyvayutsya">>)
  \/ Includes(toLowerCase(provision.content), <<"vyznacheno", " ", "takym", " ", "chynom">>)

\* /^\s*\d+\s*(?:-\s*\d+)?\)\s*([^;]{2,140}?)\s*[U+2014 -]\s*(.+)$/u on one line:
\* [matched, term, def].  The term is the shortest run of 2..140 characters
\* without ";" that is followed by optional spaces and a dash with at least
\* one character after it.  (A match that needs the spaces after ")" inside
\* the term has a term of one character after trimming, which addDefinition
\* rejects; it is given as no match.)
DefLineMatch(line) ==
  LET a0 == SkipClass(line, 1, JsSpace)
      a1 == SkipClass(line, a0, Digits)
      a2 == SkipClass(line, a1, JsSpace)
      g1 == SkipClass(line, a2 + 1, JsSpace)
      g2 == SkipClass(line, g1, Digits)
      close == IF At(line, a2) = "-" /\ g2 > g1 THEN g2 ELSE a2
      t0 == SkipClass(line, close + 1, JsSpace)
      DashAt(e) == SkipClass(line, e + 1, JsSpace)
      Ends == {e \in t0..Len(line) :
                 /\ \A k \in t0..e : line[k] # ";"
                 /\ TextLen(Slice(line, t0, e)) \in 2..140
                 /\ At(line, DashAt(e)) \in LineDashes
                 /\ DashAt(e) < Len(line)}
  IN  IF a1 > a0 /\ At(line, close) = ")" /\ Ends # {}
        THEN LET e == CHOOSE x \in Ends : \A y \in Ends : x <= y
                 d == SkipClass(line, DashAt(e) + 1, JsSpace)
             IN  [matched |-> TRUE,
                  term |-> Slice(line, t0, e),
                  def |-> IF d <= Len(line) THEN Slice(line, d, Len(line))
                          ELSE <<line[Len(line)]>>]
        ELSE [matched |-> FALSE, term |-> <<>>, def |-> <<>>]

\* normalizeWhitespace(term).replace(/^["' LAQUO RAQUO]+|["' LAQUO RAQUO]+$/g, '')
NormalizedTerm(term) ==
  LET t == normalizeWhitespace(term)
  IN  Slice(t, SkipClass(t, 1, TermQuotes), SkipClassBack(t, Len(t), TermQuotes))

\* normalizeWhitespace(definition).replace(/[;.]$/, '').trim()
NormalizedDef(definition) ==
  LET d == normalizeWhitespace(definition)
  IN  Trim(IF d # <<>> /\ d[Len(d)] \in {";", "."} THEN Slice(d, 1, Len(d) - 1) ELSE d)

\* an addDefinition without the seen set: every accepted candidate is pushed
addDefinitionNoSeen(st, term, definition, sourceProvision) ==
  IF \/ TextLen(NormalizedTerm(term)) < 2 \/ TextLen(NormalizedTerm(term)) > 160
     \/ TextLen(NormalizedDef(definition)) < 8
    THEN st
    ELSE [st EXCEPT !.definitions = Append(@, [term |-> NormalizedTerm(term),
                                                definition |-> NormalizedDef(definition),
                                                source_provision |-> sourceProvision])]

\* addDefinition, on the state [definitions, seen]
addDefinition(st, term, definition, sourceProvision) ==
  LET normalizedTerm == NormalizedTerm(term)
      normalizedDef == NormalizedDef(definition)
      key == toLowerCase(normalizedTerm)
  IN  IF TextLen(normalizedTerm) < 2 \/ TextLen(normalizedTerm) > 160 THEN st
      ELSE IF TextLen(normalizedDef) < 8 THEN st
      ELSE IF key \in st.seen THEN st
      ELSE [definitions |-> Append(st.definitions,
                                   [term |-> normalizedTerm,
                                    definition |-> normalizedDef,
                                    source_provision |-> sourceProvision]),
            seen |-> st.seen \cup {key}]

\* the body of the inner loop: one line of a definition article
DefinitionLineStep(st, line, provision) ==
  LET m == DefLineMatch(line)
  IN  IF ~m.matched THEN st
      ELSE IF \E i \in 1..Len(m.term) : Lower(m.term[i]) = "dali" THEN st
      ELSE addDefinition(st, m.term, m.def, provision.provision_ref)

RECURSIVE DefinitionLines(_, _, _, _)
DefinitionLines(st, lines, i, provision) ==
  IF i > Len(lines) THEN st
  ELSE DefinitionLines(DefinitionLineStep(st, lines[i], provision), lines, i + 1, provision)

\* the body of the outer loop: one provision
DefinitionProvisionStep(st, provision) ==
  IF ~isDefinitionArticle(provision) THEN st
  ELSE DefinitionLines(st, SplitLines(provision.content), 1, provision)

RECURSIVE DefinitionProvisions(_, _, _)
DefinitionProvisions(st, provisions, i) ==
  IF i > Len(provisions) THEN st
  ELSE DefinitionProvisions(DefinitionProvisionStep(st, provisions[i]), provisions, i + 1)

extractDefinitions(provisions) ==
  DefinitionProvisions([definitions |-> <<>>, seen |-> {}], provisions, 1).definitions

\* the end of parseLawPrintHtml with definitions mined from every article
ReturnActMineAll(arts, l, options) ==
  [provisions |-> ApplyFilter(arts, l),
   definitions |-> IF options.extractDefinitions THEN extractDefinitions(arts) ELSE <<>>]

\* the end of parseLawPrintHtml, from the article list after the fallback:
\* allow-list, definitions, the returned Act (options.extractDefinitions is
\* FALSE for the explicit false, TRUE for every other case)
ReturnAct(arts, l, options) ==
  LET filteredProvisions == ApplyFilter(arts, l)
  IN  [provisions |-> filteredProvisions,
       definitions |-> IF options.extractDefinitions
                         THEN extractDefinitions(filteredProvisions) ELSE <<>>]

(***************************************************************************)
(* Calls of single functions on inputs drawn from bounded sets             *)
(***************************************************************************)
VARIABLES fn, fnInput, fnOutput

fnVars == <<fn, fnInput, fnOutput>>

NotReturned == [returned |-> FALSE]

FnIdle == fn = "none" /\ fnInput = [none |-> TRUE] /\ fnOutput = NotReturned

\* the article lists handed to the end of parseLawPrintHtml
MaxArticles == 2

DefTitles ==
  { <<"Stattya", " ", "1", ".", " ", "Vyznachennya", " ", "terminiv">>,
    <<"Stattya", " ", "1", ".", " ", "Heading">> }

DefLines ==
  { <<"1", ")", " ", "w5", " ", "-", " ", "w7", "a">>,
    <<"2", ")", " ", "W5", " ", "U2014", " ", "w7", "b", ";">>,
    <<"1", "-", "1", ")", " ", "w5", " ", "-", " ", "w7">>,
    <<"3", ")", " ", "LAQUO", "a", "RAQUO", " ", "-", " ", "w7", "a">>,
    <<"4", ")", " ", "w139", "a", " ", "-", " ", "w7", "a">>,
    <<"4", ")", " ", "w139", "a", "b", " ", "-", " ", "w7", "a">>,
    <<"5", ")", " ", "dali", " ", "-", " ", "w7", "a">>,
    <<"Terminy", " ", "vzhyvayutsya", " ", "-", " ", "w7", "a">> }

DefContents ==
  DefLines \cup
  { <<"1", ")", " ", "w5", " ", "-", " ", "w7">> \o <<"NL">>
      \o <<"2", ")", " ", "W5", " ", "U2014", " ", "w7", "b", ";">>,
    <<"Terminy", " ", "vzhyvayutsya">> \o <<"NL">>
      \o <<"2", ")", " ", "W5", " ", "U2014", " ", "w7", "b", ";">> \o <<"NL">>
      \o <<"1", ")", " ", "w5", " ", "-", " ", "w7", "a">> }

\* article i of a list has section i
SectionOf(i) == <<CASE i = 1 -> "1" [] i = 2 -> "2" [] i = 3 -> "3" [] OTHER -> "4">>

ArticleLists ==
  { [i \in 1..Len(tc) |-> [provision_ref |-> <<"art">> \o SectionOf(i),
                          section |-> SectionOf(i),
                          title |-> tc[i].title,
                          content |-> tc[i].content]] :
      tc \in SeqsUpTo([title : DefTitles, content : DefContents], MaxArticles) }

DefLaws ==
  { NoLaw,
    [hasFilter |-> TRUE, articleFilter |-> {<<"1">>}],
    [hasFilter |-> TRUE, articleFilter |-> {<<"2">>, <<"3">>}] }

InitReturnAct ==
  /\ fn = "ReturnAct"
  /\ fnInput \in [articles : ArticleLists, law : DefLaws,
                  options : [extractDefinitions : BOOLEAN]]
  /\ fnOutput = NotReturned

CallReturnAct ==
  /\ fn = "ReturnAct" /\ ~fnOutput.returned
  /\ fnOutput' = [returned |-> TRUE,
                  value |-> ReturnAct(fnInput.articles, fnInput.law, fnInput.options)]
  /\ UNCHANGED <<fn, fnInput>>

(***************************************************************************)
(* Definitions, Grammar B: extractDefinitions of scripts/lib/parser.ts     *)
(*                                                                         *)
(* The text is the content of a provision: stripHtml has collapsed every   *)
(* whitespace run to one space.  "U201E" is the low opening quote,         *)
(* "U201D" the high closing quote.                                         *)
(***************************************************************************)
\* [U+2013 \-]
EliDashes == {"U2013", "-"}

\* [U+201E LAQUO U+201E] and ["U+201D RAQUO]
OpenQuotes == {"U201E", "LAQUO"}

CloseQuotes == {"QUOT", "U201D", "RAQUO"}

\* the lookahead ;\s*\d+\) at index i
NextNumberAt(text, i) ==
  LET a == SkipClass(text, i + 1, JsSpace)
      b == SkipClass(text, a, Digits)
  IN  At(text, i) = ";" /\ b > a /\ At(text, b) = ")"

\* /\d+\)\s+([^U+2013\-]+?)\s+[U+2013\-]\s+(.*?)(?=;\s*\d+\)|$)/ tried at index p:
\* [matched, term, def, last]
NumberedMatchAt(text, p) ==
  LET a == SkipClass(text, p, Digits)
      b == SkipClass(text, a + 1, JsSpace)
      DashAt(e) == SkipClass(text, e + 1, JsSpace)
      DefAt(e) == SkipClass(text, DashAt(e) + 1, JsSpace)
      Ends == {e \in b..Len(text) :
                 /\ \A k \in b..e : text[k] \notin EliDashes
                 /\ DashAt(e) > e + 1 /\ At(text, DashAt(e)) \in EliDashes
                 /\ DefAt(e) > DashAt(e) + 1}
  IN  IF a > p /\ At(text, a) = ")" /\ b > a + 1 /\ Ends # {}
        THEN LET e == CHOOSE x \in Ends : \A y \in Ends : x <= y
                 k == DefAt(e)
                 stops == {i \in k..Len(text) : NextNumberAt(text, i)}
                 f == IF stops = {} THEN Len(text)
                      ELSE (CHOOSE x \in stops : \A y \in stops : x <= y) - 1
             IN  [matched |-> TRUE, term |-> Slice(text, b, e),
                  def |-> Slice(text, k, f), last |-> f]
        ELSE [matched |-> FALSE, term |-> <<>>, def |-> <<>>, last |-> p]

\* the lookaheads [;.]\s*[U+201E LAQUO] and [;.]\s*$ at index i
QuotedStopAt(text, i) ==
  LET a == SkipClass(text, i + 1, JsSpace)
  IN  At(text, i) \in {";", "."} /\ (a > Len(text) \/ text[a] \in OpenQuotes)

\* the quoted-term pattern tried at index p: [matched, term, def, last]
QuotedMatchAt(text, p) ==
  LET closes == {i \in (p + 1)..Len(text) : text[i] \in CloseQuotes}
      q == IF closes = {} THEN Len(text) + 1
           ELSE CHOOSE x \in closes : \A y \in closes : x <= y
      d == SkipClass(text, q + 1, JsSpace)
      k == SkipClass(text, d + 1, JsSpace)
      stops == {i \in k..Len(text) : QuotedStopAt(text, i)}
  IN  IF /\ At(text, p) \in OpenQuotes /\ q > p + 1 /\ At(text, q) \in CloseQuotes
         /\ At(text, d) \in EliDashes /\ stops # {}
        THEN LET f == (CHOOSE x \in stops : \A y \in stops : x <= y) - 1
             IN  [matched |-> TRUE, term |-> Slice(text, p + 1, q - 1),
                  def |-> Slice(text, k, f), last |-> f]
        ELSE [matched |-> FALSE, term |-> <<>>, def |-> <<>>, last |-> p]

\* s.replace(/[...]$/, '') for the one-character class C
DropLastOf(s, C) == IF s # <<>> /\ s[Len(s)] \in C THEN Slice(s, 1, Len(s) - 1) ELSE s

\* the push of one candidate, guarded by the three length tests
EliCandidate(term, definition, sourceProvision) ==
  IF TextLen(term) > 1 /\ TextLen(term) < 100 /\ TextLen(definition) > 5
    THEN << [term |-> term, definition |-> definition,
             source_provision |-> sourceProvision] >>
    ELSE <<>>

\* the first while loop, from index p on
RECURSIVE NumberedDefs(_, _, _)
NumberedDefs(text, p, sourceProvision) ==
  IF p > Len(text) THEN <<>>
  ELSE LET m == NumberedMatchAt(text, p)
       IN  IF m.matched
             THEN EliCandidate(Trim(m.term), Trim(DropLastOf(m.def, {";"})), sourceProvision)
                    \o NumberedDefs(text, m.last + 1, sourceProvision)
             ELSE NumberedDefs(text, p + 1, sourceProvision)

\* the second while loop, from index p on
RECURSIVE QuotedDefs(_, _, _)
QuotedDefs(text, p, sourceProvision) ==
  IF p > Len(text) THEN <<>>
  ELSE LET m == QuotedMatchAt(text, p)
       IN  IF m.matched
             THEN EliCandidate(Trim(m.term), Trim(DropLastOf(m.def, {";", "."})),
                               sourceProvision)
                    \o QuotedDefs(text, (IF m.last >= p THEN m.last ELSE p) + 1, sourceProvision)
             ELSE QuotedDefs(text, p + 1, sourceProvision)

\* extractDefinitions(text, sourceProvision, definitions): what it appends
extractDefinitionsEli(text, sourceProvision) ==
  NumberedDefs(text, 1, sourceProvision) \o QuotedDefs(text, 1, sourceProvision)

\* content.includes('ilekro') || includes('rozumie si') || includes('oznacza')
\*   || includes('nale') && includes('rozumie')
IsDefinitionText(content) ==
  \/ \E i \in 1..Len(content) : content[i] \in {"ilekroc", "oznacza"}
  \/ Includes(content, <<"rozumie", " ", "sie">>)
  \/ /\ \E i \in 1..Len(content) : content[i] = "nalezy"
     /\ \E i \in 1..Len(content) : content[i] = "rozumie"

\* the definitions part of the article loop, over the provisions pushed
RECURSIVE MineDefinitions(_, _)
MineDefinitions(provisions, i) ==
  IF i > Len(provisions) THEN <<>>
  ELSE (IF IsDefinitionText(provisions[i].content)
          THEN extractDefinitionsEli(provisions[i].content, provisions[i].provision_ref)
          ELSE <<>>)
       \o MineDefinitions(provisions, i + 1)

\* the contents of the provisions of an ELI page
EliContents ==
  { <<"oznacza", " ", "1", ")", " ", "w5", " ", "-", " ", "w7">>,
    <<"oznacza", " ", "1", ")", " ", "W5", " ", "U2013", " ", "w7", " ", "a", ";", " ",
      "2", ")", " ", "w5", " ", "-", " ", "w4">>,
    <<"oznacza", " ", "1", ")", " ", "w5", " ", "-", " ", "LAQUO", "w5", "RAQUO", " ",
      "-", " ", "w7", " ", "a", ".">>,
    <<"1", ")", " ", "w5", " ", "-", " ", "w7", " ", "a">>,
    <<"rozumie", " ", "sie", " ", "1", ")", " ", "a", " ", "-", " ", "w7", " ", "a">>,
    <<"nalezy", " ", "rozumie", " ", "1", ")", " ", "w98", "a", " ", "-", " ", "w7", " ", "a">>,
    <<"ilekroc", " ", "1", ")", " ", "w98", "a", "b", " ", "-", " ", "w7", " ", "a">>,
    <<"oznacza", " ", "U201E", "w5", "U201D", " ", "-", " ", "w7", " ", "a", ";", " ",
      "LAQUO", "a", "b", "RAQUO", " ", "U2013", " ", "w5", ".">> }

EliProvisionLists ==
  { [i \in 1..Len(cs) |-> [provision_ref |-> <<"art">> \o SectionOf(i),
                          section |-> SectionOf(i),
                          title |-> <<"Art.", " ">> \o SectionOf(i),
                          content |-> cs[i]]] :
      cs \in SeqsUpTo(EliContents, MaxArticles) }

InitMineDefinitions ==
  /\ fn = "MineDefinitions"
  /\ fnInput \in [provisions : EliProvisionLists]
  /\ fnOutput = NotReturned

CallMineDefinitions ==
  /\ fn = "MineDefinitions" /\ ~fnOutput.returned
  /\ fnOutput' = [returned |-> TRUE,
                  value |-> [provisions |-> fnInput.provisions,
                             definitions |-> MineDefinitions(fnInput.provisions, 1)]]
  /\ UNCHANGED <<fn, fnInput>>

(***************************************************************************)
(* findChapterHeading of scripts/lib/parser.ts                             *)
(*                                                                         *)
(* "Rozdzial" and "Dzial" are the two heading words, "f<n>" is a run of n  *)
(* characters of other markup and text.                                    *)
(***************************************************************************)
LookbackWindow == 10000

\* [IVXLCDM] under the i flag
RomanLetters == {"I", "V", "X", "L", "C", "D", "M", "i", "v", "l", "d", "m"} \cup {"x", "c"}

\* [a-z] under the i flag
AnyLetters == LowerLetters \cup RomanLetters

\* the offset of token i of s in characters
Offset(s, i) == TextLen(Slice(s, 1, i - 1))

\* what is left of token c when its first n characters are cut off: the
\* tail of "Rozdzial" still spells "dzial" while n <= 3
CutToken(c, n) == IF c = "Rozdzial" /\ n <= 3 THEN "dzial" ELSE "cut"

\* the whole page: no window
BeforeArticleAll(html, articlePos) ==
  LET in == {i \in 1..Len(html) : Offset(html, i) + TokLen(html[i]) <= articlePos}
  IN  [i \in 1..Cardinality(in) |-> html[i]]

\* html.substring(Math.max(0, articlePos - 10000), articlePos)
BeforeArticle(html, articlePos) ==
  LET start == IF articlePos - LookbackWindow > 0 THEN articlePos - LookbackWindow ELSE 0
      in == {i \in 1..Len(html) :
               /\ Offset(html, i) + TokLen(html[i]) > start
               /\ Offset(html, i) + TokLen(html[i]) <= articlePos}
      first == IF in = {} THEN 1 ELSE CHOOSE x \in in : \A y \in in : x <= y
  IN  [k \in 1..Cardinality(in) |->
         LET i == first + k - 1
         IN  IF Offset(html, i) < start THEN CutToken(html[i], start - Offset(html, i))
             ELSE html[i]]

\* (.*?)(?=<\/h3>|<\/P>) from index c: the index of the closing tag, 0 if a
\* line end or the end of the text comes first
HeadingCloseFrom(w, c) ==
  LET stops == {i \in c..Len(w) : w[i] \in {"</h3>", "</P>", "NL"}}
  IN  IF stops = {} THEN 0
      ELSE LET i == CHOOSE x \in stops : \A y \in stops : x <= y
           IN  IF w[i] = "NL" THEN 0 ELSE i

\* Rozdzia[l]\s*&nbsp;\s*(\d+[a-z]?)\s*(.*?)(?=<\/h3>|<\/P>) tried at index i:
\* [matched, num, last]
ChapterMatchAt(w, i) ==
  LET a == SkipClass(w, i + 1, JsSpace)
      b == SkipClass(w, a + 1, JsSpace)
      c == SkipClass(w, b, Digits)
      d == IF At(w, c) \in AnyLetters THEN c + 1 ELSE c
      e == HeadingCloseFrom(w, d)
  IN  IF At(w, i) = "Rozdzial" /\ At(w, a) = "&nbsp;" /\ c > b /\ e > 0
        THEN [matched |-> TRUE, num |-> Slice(w, b, d - 1), last |-> e - 1]
        ELSE [matched |-> FALSE, num |-> <<>>, last |-> i]

\* Dzia[l]\s*&nbsp;\s*([IVXLCDM]+[a-z]?)\s*(.*?)(?=<\/h3>|<\/P>) tried at
\* index i; the pattern also matches inside the word "Rozdzial"
DzialMatchAt(w, i) ==
  LET a == SkipClass(w, i + 1, JsSpace)
      b == SkipClass(w, a + 1, JsSpace)
      c == SkipClass(w, b, RomanLetters)
      d == IF At(w, c) \in AnyLetters THEN c + 1 ELSE c
      e == HeadingCloseFrom(w, d)
  IN  IF At(w, i) \in {"Dzial", "dzial", "Rozdzial"} /\ At(w, a) = "&nbsp;" /\ c > b /\ e > 0
        THEN [matched |-> TRUE, num |-> Slice(w, b, d - 1), last |-> e - 1]
        ELSE [matched |-> FALSE, num |-> <<>>, last |-> i]

\* [...w.matchAll(chapter pattern)] from index p on
RECURSIVE ChapterMatches(_, _)
ChapterMatches(w, p) ==
  IF p > Len(w) THEN <<>>
  ELSE LET m == ChapterMatchAt(w, p)
       IN  IF m.matched THEN <<m>> \o ChapterMatches(w, m.last + 1)
           ELSE ChapterMatches(w, p + 1)

RECURSIVE DzialMatches(_, _)
DzialMatches(w, p) ==
  IF p > Len(w) THEN <<>>
  ELSE LET m == DzialMatchAt(w, p)
       IN  IF m.matched THEN <<m>> \o DzialMatches(w, m.last + 1)
           ELSE DzialMatches(w, p + 1)

\* the first <SPAN ... class="pro-title-unit" ...>(.*?)</SPAN> after index p,
\* stripped; <<>> if there is none
TitleAfter(w, p) ==
  LET CloseOf(j) ==
        LET stops == {k \in (j + 1)..Len(w) : w[k] \in {"</SPAN>", "NL"}}
        IN  IF stops = {} THEN 0
            ELSE LET k == CHOOSE x \in stops : \A y \in stops : x <= y
                 IN  IF w[k] = "NL" THEN 0 ELSE k
      opens == {j \in (p + 1)..Len(w) :
                  w[j] = "<SPAN class=pro-title-unit>" /\ CloseOf(j) > 0}
  IN  IF opens = {} THEN <<>>
      ELSE LET j == CHOOSE x \in opens : \A y \in opens : x <= y
           IN  stripHtml(Slice(w, j + 1, CloseOf(j) - 1))

NoChapter == [defined |-> FALSE, label |-> <<>>]

\* `<word> <num> - <title>` or `<word> <num>`
ChapterLabel(word, m, w) ==
  LET title == TitleAfter(w, m.last)
  IN  [defined |-> TRUE,
       label |-> <<word, " ">> \o Trim(m.num)
                   \o (IF title # <<>> THEN <<" ", "-", " ">> \o title ELSE <<>>)]

findChapterHeading(html, articlePos) ==
  LET beforeArticle == BeforeArticle(html, articlePos)
      chapterMatches == ChapterMatches(beforeArticle, 1)
      dzialMatches == DzialMatches(beforeArticle, 1)
  IN  IF Len(chapterMatches) > 0
        THEN ChapterLabel("Rozdzial", chapterMatches[Len(chapterMatches)], beforeArticle)
      ELSE IF Len(dzialMatches) > 0
        THEN ChapterLabel("Dzial", dzialMatches[Len(dzialMatches)], beforeArticle)
      ELSE NoChapter

MaxSegments == 3

\* the pieces of the page before an article
HeadSegments ==
  { <<"<h3>", "Rozdzial", "&nbsp;", "1", "</h3>">>,
    <<"<h3>", "Rozdzial", " ", "&nbsp;", "2", "a", " ", "x", "</P>",
      "<SPAN class=pro-title-unit>", "Title", "</SPAN>">>,
    <<"<h3>", "Dzial", "&nbsp;", "I", "I", "</h3>">>,
    <<"<h3>", "Dzial", "&nbsp;", "V", "</h3>", "<SPAN class=pro-title-unit>", "Title",
      "&nbsp;", "x", "</SPAN>">>,
    <<"<h3>", "Rozdzial", "&nbsp;", "X", "</h3>">>,
    <<"<h3>", "Rozdzial", "&nbsp;", "3", "NL", "</h3>">>,
    <<"f20">>,
    <<"f9982">>,
    <<"f9990">>,
    <<"f10000">> }

RECURSIVE Concat(_)
Concat(ss) == IF ss = <<>> THEN <<>> ELSE Head(ss) \o Concat(Tail(ss))

\* pages: some pieces, then the article container
HeadPages == {Concat(ss) \o <<"<tag>">> : ss \in SeqsUpTo(HeadSegments, MaxSegments)}

InitFindChapterHeading ==
  /\ fn = "findChapterHeading"
  /\ \E html \in HeadPages :
       fnInput = [html |-> html, articlePos |-> Offset(html, Len(html))]
  /\ fnOutput = NotReturned

CallFindChapterHeading ==
  /\ fn = "findChapterHeading" /\ ~fnOutput.returned
  /\ fnOutput' = [returned |-> TRUE,
                  value |-> findChapterHeading(fnInput.html, fnInput.articlePos)]
  /\ UNCHANGED <<fn, fnInput>>

(***************************************************************************)
(* extractStatus                                                           *)
(*                                                                         *)
(* The page is a sequence of tags and words.  "<span class=c>" is the tag  *)
(* <span class="c">; "chynnyi" and "nechynnyi" are the two status words,   *)
(* the second of which contains the first; "g<n>" is a run of n            *)
(* characters without a tag or a keyword.                                  *)
(***************************************************************************)
StatusGap == 200

\* the class attribute of a span tag
ClassOf(c) ==
  CASE c = "<span class=valid>"     -> "valid"
    [] c = "<span class=invalid>"   -> "invalid"
    [] c = "<span class=notvalid>"  -> "notvalid"
    [] c = "<span class=obsolete>"  -> "obsolete"
    [] c = "<span class=disabled>"  -> "disabled"
    [] c = "<span class=label>"     -> "label"
    [] c = "<span class=doc-valid>" -> "doc-valid"
    [] OTHER                        -> "none"

\* tokens that begin with "<"
TagTokens ==
  {"<span class=valid>", "<span class=invalid>", "<span class=notvalid>",
   "<span class=obsolete>", "<span class=disabled>", "<span class=label>",
   "<span class=doc-valid>", "</span>", "<b>", "<tag>"}

\* s.includes(key) for a lower-cased word s
WordIncludes(c, key) ==
  CASE key = "valid"     -> c \in {"valid", "invalid", "notvalid", "doc-valid"}
    [] key = "chynnyi"   -> c \in {"chynnyi", "nechynnyi"}
    [] key = "nechynnyi" -> c = "nechynnyi"
    [] key = "repealed"  -> c = "repealed"
    [] OTHER             -> c = key

\* text.includes(key)
TextIncludes(text, key) == \E i \in 1..Len(text) : WordIncludes(text[i], key)

\* the end of ">([^<]+)</span>" after the span tag at index j, 0 if none
SpanCloseOf(html, j) ==
  LET tags == {k \in (j + 1)..Len(html) : html[k] \in TagTokens}
  IN  IF tags = {} THEN 0
      ELSE LET k == CHOOSE x \in tags : \A y \in tags : x <= y
           IN  IF html[k] = "</span>" /\ k > j + 1 THEN k ELSE 0

\* html.match(/Document[\s\S]{0,200}<span class="([^"]+)">([^<]+)<\/span>/i):
\* the first "Document" that has a span within reach, and for it the
\* farthest such span
statusSpan(html) ==
  LET Reach(i) == {j \in (i + 1)..Len(html) :
                     /\ ClassOf(html[j]) # "none"
                     /\ TextLen(Slice(html, i + 1, j - 1)) <= StatusGap
                     /\ SpanCloseOf(html, j) > 0}
      docs == {i \in 1..Len(html) : html[i] = "Document" /\ Reach(i) # {}}
  IN  IF docs = {} THEN [matched |-> FALSE, cls |-> "none", text |-> <<>>]
      ELSE LET i == CHOOSE x \in docs : \A y \in docs : x <= y
               j == CHOOSE x \in Reach(i) : \A y \in Reach(i) : y <= x
           IN  [matched |-> TRUE, cls |-> ClassOf(html[j]),
                text |-> toLowerCase(Slice(html, j + 1, SpanCloseOf(html, j) - 1))]

HasBadge(html, classes) == \E i \in 1..Len(html) : ClassOf(html[i]) \in classes

\* the keyword scan of the whole page
HasNotYetPhrase(html) ==
  LET lower == toLowerCase(html)
  IN  \E i \in 1..Len(lower) : lower[i] \in {"ne nabrav chynnosti", "not yet in force"}

\* the keyword scan moved to the front
extractStatusPhraseFirst(html) ==
  IF HasNotYetPhrase(html) THEN "not_yet_in_force"
  ELSE IF HasBadge(html, {"valid"}) THEN "in_force"
  ELSE IF HasBadge(html, {"invalid", "notvalid", "obsolete", "disabled"}) THEN "repealed"
  ELSE "in_force"

extractStatus(html) ==
  IF HasBadge(html, {"valid"}) THEN "in_force"
  ELSE IF HasBadge(html, {"invalid"}) THEN "repealed"
  ELSE IF HasBadge(html, {"notvalid", "obsolete", "disabled"}) THEN "repealed"
  ELSE LET m == statusSpan(html)
       IN  IF m.matched /\ (\/ WordIncludes(m.cls, "valid")
                            \/ TextIncludes(m.text, "valid")
                            \/ TextIncludes(m.text, "chynnyi"))
             THEN "in_force"
           ELSE IF m.matched /\ (\/ TextIncludes(m.text, "repealed")
                                 \/ TextIncludes(m.text, "nechynnyi"))
             THEN "repealed"
           ELSE IF HasNotYetPhrase(html) THEN "not_yet_in_force"
           ELSE "in_force"

MaxItems == 3

\* the pieces of a page header
StatusItems ==
  { <<"<span class=valid>", "chynnyi", "</span>">>,
    <<"<span class=invalid>", "nechynnyi", "</span>">>,
    <<"<span class=notvalid>", "text", "</span>">>,
    <<"<span class=obsolete>", "text", "</span>">>,
    <<"<span class=disabled>", "text", "</span>">>,
    <<"<span class=label>", "chynnyi", "</span>">>,
    <<"<span class=label>", "nechynnyi", "</span>">>,
    <<"<span class=label>", "repealed", "</span>">>,
    <<"<span class=label>", "Valid", "</span>">>,
    <<"<span class=label>", "text", "</span>">>,
    <<"<span class=doc-valid>", "text", "</span>">>,
    <<"<span class=label>", "<b>", "repealed", "</span>">>,
    <<"Document">>,
    <<"g150">>,
    <<"g201">>,
    <<"Not yet in force">>,
    <<"ne nabrav chynnosti">> }

StatusPages == {Concat(ss) : ss \in SeqsUpTo(StatusItems, MaxItems)}

InitExtractStatus ==
  /\ fn = "extractStatus"
  /\ fnInput \in [html : StatusPages]
  /\ fnOutput = NotReturned

CallExtractStatus ==
  /\ fn = "extractStatus" /\ ~fnOutput.returned
  /\ fnOutput' = [returned |-> TRUE, value |-> extractStatus(fnInput.html)]
  /\ UNCHANGED <<fn, fnInput>>

(***************************************************************************)
(* The normalizer on numeric references of any value                       *)
(*                                                                         *)
(* "&#<many digits>;" is a decimal reference with so many digits that      *)
(* parseInt gives Infinity.                                                *)
(***************************************************************************)
\* the largest code point String.fromCodePoint accepts
MaxCodePoint == 1114111

\* Number.parseInt of the digits of a numeric reference; -1: Infinity
ParsedCodePoint ==
  [e \in DOMAIN NumericRefs \cup {"&#1114112;", "&#x110000;", "&#<many digits>;"} |->
     CASE e = "&#160;"     -> 160
       [] e = "&#8208;"    -> 8208
       [] e = "&#8209;"    -> 8209
       [] e = "&#x2013;"   -> 8211
       [] e = "&#55296;"   -> 55296
       [] e = "&#x10FFFF;" -> 1114111
       [] e = "&#1114112;" -> 1114112
       [] e = "&#x110000;" -> 1114112
       [] e = "&#<many digits>;" -> -1]

\* Number.isFinite(cp)
IsFinite(cp) == cp # -1

\* String.fromCodePoint(cp) throws a RangeError
FromCodePointThrows(cp) == cp > MaxCodePoint

\* a replace callback of decodeHtmlEntities throws on the text s
DecodeThrows(s) ==
  \E i \in 1..Len(s) :
    /\ s[i] \in DOMAIN ParsedCodePoint
    /\ IsFinite(ParsedCodePoint[s[i]])
    /\ FromCodePointThrows(ParsedCodePoint[s[i]])

\* a call of decodeHtmlEntities: an exception or a text
decodeHtmlEntitiesCall(s) ==
  IF DecodeThrows(s) THEN [thrown |-> TRUE, text |-> <<>>]
  ELSE [thrown |-> FALSE, text |-> decodeHtmlEntities(s)]

\* the argument htmlToText hands to decodeHtmlEntities
HtmlToTextArgument(html) ==
  LET s1 == FlatMap(html, LAMBDA c : IF c = "<br>" THEN <<"NL">>
                                      ELSE IF c = "<tag>" THEN <<" ">>
                                      ELSE <<c>>)
  IN  Trim(CollapseHSpace(StripAfterNL(StripBeforeNL(ReplaceNbsp(s1)))))

\* a call of htmlToText: an exception or a text
htmlToTextCall(html) == decodeHtmlEntitiesCall(HtmlToTextArgument(html))

MaxEntityLen == 3

EntityTokens ==
  {"a", " ", "<br>", "<tag>", "&copy;", "&amp;", "&shy;", "&#160;", "&#55296;",
   "&#x10FFFF;", "&#1114112;", "&#x110000;", "&#<many digits>;"}

EntityTexts == SeqsUpTo(EntityTokens, MaxEntityLen)

InitHtmlToText ==
  /\ fn = "htmlToText"
  /\ fnInput \in [html : EntityTexts]
  /\ fnOutput = NotReturned

CallHtmlToText ==
  /\ fn = "htmlToText" /\ ~fnOutput.returned
  /\ fnOutput' = [returned |-> TRUE, value |-> htmlToTextCall(fnInput.html)]
  /\ UNCHANGED <<fn, fnInput>>

(***************************************************************************)
(* The English title: extractPageTitle, isEnglishLike,                     *)
(* extractEnglishTitle, and the title_en of parseLawPrintHtml              *)
(*                                                                         *)
(* A page is [h1, title]: the inner HTML of the page-header heading and of *)
(* the <title> element, each [present, inner].  "Pro", "Zakon" and "vid"   *)
(* are words in Cyrillic letters, "On" and "Data" words in Latin letters.  *)
(***************************************************************************)
\* tokens with a character of [Ѐ-ӿ]
CyrillicTokens == {"Pro", "Zakon", "vid"}

\* tokens with a character of [A-Za-z]
LatinTokens == {"On", "Data", "a", "b", "c", "x", "&copy;"}

\* the date of the <title> tail, \d{2}\.\d{2}\.\d{4}
DateTokens == {"01.06.2010"}

\* trimmed.replace(/\s*\|\s*vid\s+\d{2}\.\d{2}\.\d{4}.*$/, '')
StripDateTail(t) ==
  LET Tail0(i) ==
        LET a == SkipClass(t, i + 1, JsSpace)
            b == SkipClass(t, a + 1, JsSpace)
        IN  /\ t[i] = "|" /\ At(t, a) = "vid" /\ b > a + 1 /\ At(t, b) \in DateTokens
            /\ \A k \in (b + 1)..Len(t) : t[k] # "NL"
      bars == {i \in 1..Len(t) : Tail0(i)}
  IN  IF bars = {} THEN t
      ELSE LET i == CHOOSE x \in bars : \A y \in bars : x <= y
           IN  Slice(t, 1, SkipClassBack(t, i - 1, JsSpace))

extractPageTitle(html) ==
  IF html.h1.present /\ html.h1.inner # <<>>
    THEN normalizeWhitespace(htmlToText(html.h1.inner))
  ELSE IF ~html.title.present \/ html.title.inner = <<>> THEN <<>>
  ELSE Trim(StripDateTail(htmlToText(html.title.inner)))

\* the test without the Cyrillic check
isEnglishLikeLatinOnly(text) ==
  /\ text # <<>>
  /\ \E i \in 1..Len(text) : text[i] \in LatinTokens

isEnglishLike(text) ==
  /\ text # <<>>
  /\ LET hasCyrillic == \E i \in 1..Len(text) : text[i] \in CyrillicTokens
         hasLatin == \E i \in 1..Len(text) : text[i] \in LatinTokens
     IN  hasLatin /\ ~hasCyrillic

Undefined == [defined |-> FALSE, value |-> <<>>]

extractEnglishTitle(htmlEn) ==
  LET title == extractPageTitle(htmlEn)
  IN  IF isEnglishLike(title) THEN [defined |-> TRUE, value |-> title] ELSE Undefined

\* titleEn?.trim() || law.titleEnFallback
titleEnResolved(titleEn, l) ==
  IF titleEn.defined /\ Trim(titleEn.value) # <<>> THEN Trim(titleEn.value)
  ELSE l.titleEnFallback

\* ingestOneLaw, as far as title_en goes
ingestOneLawTitle(enHtml, options, l) ==
  LET titleEn == IF options.fetchEn THEN extractEnglishTitle(enHtml) ELSE Undefined
  IN  [title_en |-> titleEnResolved(titleEn, l)]

MaxTitleLen == 3

TitleInners ==
  SeqsUpTo({"On", " ", "Zakon", "5", "&nbsp;"}, MaxTitleLen)
    \cup { <<"On", " ", "Data", " ", "|", " ", "vid", " ", "01.06.2010", " ", "Zakon">>,
           <<"On", " ", "|", "vid", "01.06.2010">>,
           <<"&copy;", "5">> }

Absent == [present |-> FALSE, inner |-> <<>>]

EnPages ==
  {[h1 |-> [present |-> TRUE, inner |-> t], title |-> Absent] : t \in TitleInners}
    \cup {[h1 |-> Absent, title |-> [present |-> TRUE, inner |-> t]] : t \in TitleInners}
    \cup {[h1 |-> [present |-> TRUE, inner |-> <<>>],
           title |-> [present |-> TRUE, inner |-> <<"On", " ", "Data">>]]}

TitleFallbacks == { <<>>, <<"On", " ", "Protection">> }

InitIngestOneLaw ==
  /\ fn = "ingestOneLaw"
  /\ fnInput \in [enHtml : EnPages, options : [fetchEn : BOOLEAN],
                  law : [titleEnFallback : TitleFallbacks]]
  /\ fnOutput = NotReturned

CallIngestOneLaw ==
  /\ fn = "ingestOneLaw" /\ ~fnOutput.returned
  /\ fnOutput' = [returned |-> TRUE,
                  value |-> ingestOneLawTitle(fnInput.enHtml, fnInput.options, fnInput.law)]
  /\ UNCHANGED <<fn, fnInput>>

(***************************************************************************)
(* The curated laws: slugFromReference, normalizeReference,                *)
(* resolveKnownLawByReference, buildGenericTargetLaw                       *)
(*                                                                         *)
(* A reference is a sequence of tokens: groups of digits, "-", "/", " ",   *)
(* a hyphen variant, "vr" and "VR" (two Cyrillic letters, lower and upper  *)
(* case), "%D0%B2%D1%80" (the percent-encoding of "vr") and "%" (a         *)
(* malformed escape).                                                      *)
(***************************************************************************)
\* tokens of [a-z0-9]
AlnumTokens == {"2297", "2163", "999", "80", "94", "17", "19", "20", "2"}

\* decodeURIComponent inside try/catch: a malformed escape leaves the value as it is
safeDecodeURIComponent(value) ==
  IF \E i \in 1..Len(value) : value[i] = "%" THEN value
  ELSE [i \in 1..Len(value) |-> IF value[i] = "%D0%B2%D1%80" THEN "vr" ELSE value[i]]

\* toLowerCase on the tokens of a reference
LowerRef(s) == [i \in 1..Len(s) |-> IF s[i] = "VR" THEN "vr" ELSE s[i]]

\* runs of "-" collapsed to one
RECURSIVE CollapseDashes(_)
CollapseDashes(s) ==
  IF Len(s) < 2 THEN s
  ELSE IF s[1] = "-" /\ s[2] = "-" THEN CollapseDashes(Tail(s))
  ELSE <<s[1]>> \o CollapseDashes(Tail(s))

\* .replace(/^-|-$/g, '')
StripEdgeDashes(s) ==
  LET a == IF s # <<>> /\ s[1] = "-" THEN Tail(s) ELSE s
  IN  IF a # <<>> /\ a[Len(a)] = "-" THEN Slice(a, 1, Len(a) - 1) ELSE a

\* every character outside [a-z0-9-] becomes "-": the slash, white space,
\* the hyphen variants, "%", and both letters of "vr"
slugFromReference(reference) ==
  LET decoded == LowerRef(safeDecodeURIComponent(reference))
      dashed == FlatMap(decoded, LAMBDA c :
                  IF c \in AlnumTokens \cup {"-"} THEN <<c>>
                  ELSE IF c = "vr" THEN <<"-", "-">>
                  ELSE IF c = "%D0%B2%D1%80"
                    THEN <<"-", "d0", "-", "b2", "-", "d1", "-", "80">>
                  ELSE <<"-">>)
  IN  StripEdgeDashes(CollapseDashes(dashed))

\* decode, NFC (the tokens are composed already), white space removed,
\* hyphen variants to "-", lower case
normalizeReference(reference) ==
  LET decoded == safeDecodeURIComponent(reference)
      packed == FlatMap(decoded, LAMBDA c : IF c \in JsSpace THEN <<>> ELSE <<c>>)
  IN  LowerRef(ReplaceHyphenVariants(packed))

TARGET_LAWS ==
  << [id |-> <<"ua-personal-data-protection">>, reference |-> <<"2297", "-", "17">>,
      order |-> "01", hasFilter |-> FALSE],
     [id |-> <<"ua-cybersecurity">>, reference |-> <<"2163", "-", "19">>,
      order |-> "02", hasFilter |-> TRUE],
     [id |-> <<"ua-information-protection-systems">>,
      reference |-> <<"80", "/", "94", "-", "%D0%B2%D1%80">>,
      order |-> "09", hasFilter |-> FALSE] >>

\* new Map()
EmptyMap == [k \in {} |-> TARGET_LAWS[1]]

\* map.set(k, v)
MapSet(m, k, v) == [x \in DOMAIN m \cup {k} |-> IF x = k THEN v ELSE m[x]]

\* the loop over TARGET_LAWS
RECURSIVE SetAll(_, _)
SetAll(m, i) ==
  IF i > Len(TARGET_LAWS) THEN m
  ELSE SetAll(MapSet(m, normalizeReference(TARGET_LAWS[i].reference), TARGET_LAWS[i]), i + 1)

VARIABLES CURATED_BY_REFERENCE, populations, lookups

lookupVars == <<CURATED_BY_REFERENCE, populations, lookups>>

\* the module is loaded: the map is empty and no call has been made;
\* populations counts the runs of the loop over TARGET_LAWS
LookupIdle ==
  /\ CURATED_BY_REFERENCE = EmptyMap
  /\ populations = 0
  /\ lookups = <<>>

\* the population without the size test: [map, populations]
PopulateAlways(m, n) == [map |-> SetAll(m, 1), populations |-> n + 1]

\* if (CURATED_BY_REFERENCE.size === 0) { ... }: [map, populations]
Populate(m, n) ==
  IF DOMAIN m = {} THEN [map |-> SetAll(m, 1), populations |-> n + 1]
  ELSE [map |-> m, populations |-> n]

\* CURATED_BY_REFERENCE.get(normalizeReference(reference))
MapGet(m, reference) ==
  IF normalizeReference(reference) \in DOMAIN m
    THEN [found |-> TRUE, law |-> m[normalizeReference(reference)]]
    ELSE [found |-> FALSE, law |-> TARGET_LAWS[1]]

\* the law buildGenericTargetLaw returns, given what the lookup returned
GenericLaw(known, reference, order) ==
  IF known.found
    THEN [known.law EXCEPT !.order = order, !.hasFilter = FALSE]
    ELSE [id |-> <<"ua-law-">> \o slugFromReference(reference), reference |-> reference,
          order |-> order, hasFilter |-> FALSE]

MaxLookups == 3

References ==
  { <<"2297", "-", "17">>, <<"2297", "U2013", "17">>, <<" ", "2297", "-", "17">>,
    <<"80", "/", "94", "-", "VR">>, <<"80", "/", "94", "-", "vr", "%">>,
    <<"999", "-", "20">> }

\* a call of resolveKnownLawByReference
ResolveKnownCall ==
  /\ Len(lookups) < MaxLookups
  /\ \E reference \in References :
       LET p == Populate(CURATED_BY_REFERENCE, populations)
           known == MapGet(p.map, reference)
       IN  /\ CURATED_BY_REFERENCE' = p.map
           /\ populations' = p.populations
           /\ lookups' = Append(lookups, [reference |-> reference, found |-> known.found,
                                          id |-> IF known.found THEN known.law.id ELSE <<>>])

\* a call of buildGenericTargetLaw
BuildGenericCall ==
  /\ Len(lookups) < MaxLookups
  /\ \E reference \in References, order \in {"00001", "00002"} :
       LET p == Populate(CURATED_BY_REFERENCE, populations)
           known == MapGet(p.map, reference)
           built == GenericLaw(known, reference, order)
       IN  /\ CURATED_BY_REFERENCE' = p.map
           /\ populations' = p.populations
           /\ lookups' = Append(lookups, [reference |-> reference, found |-> known.found,
                                          id |-> built.id])


(***************************************************************************)
(* The full-mode law list: buildFullLawList and ensureUniqueLawIds         *)
(***************************************************************************)
\* String(n) for the suffixes of the model
NumberString(n) == <<"1", "2", "3", "4", "5", "6", "7", "8", "9">>[n]

\* String(idx + 1).padStart(5, '0')
OrderOf(i) == <<"00001", "00002", "00003", "00004", "00005">>[i]

\* seen.get(id) ?? 0 before the law at index i: the laws before it with its id
SeenBefore(laws, i) == Cardinality({j \in 1..(i - 1) : laws[j].id = laws[i].id})

ensureUniqueLawIds(laws) ==
  [i \in 1..Len(laws) |->
     LET count == SeenBefore(laws, i)
     IN  IF count = 0 THEN laws[i]
         ELSE [laws[i] EXCEPT !.id = laws[i].id \o <<"-", NumberString(count + 1)>>]]

\* refs.map(buildGenericTargetLaw), then ensureUniqueLawIds
buildFullLawListOf(refs) ==
  LET generated == [i \in 1..Len(refs) |->
                      GenericLaw(MapGet(SetAll(EmptyMap, 1), refs[i]), refs[i], OrderOf(i))]
  IN  ensureUniqueLawIds(generated)

MaxRefs == 3

\* references of the type lists
ListedReferences ==
  { <<"80", "/", "94">>, <<"80", "-", "94">>, <<"80", "/", "94", "-", "2">>,
    <<"2297", "-", "17">>, <<"2297", "U2013", "17">>, <<"999", "-", "20">> }

\* the lists of references after the seenRefs filter: no reference twice
RefLists ==
  {rs \in SeqsUpTo(ListedReferences, MaxRefs) :
     \A i, j \in 1..Len(rs) : i # j => rs[i] # rs[j]}

InitBuildFullLawList ==
  /\ fn = "buildFullLawList"
  /\ fnInput \in [refs : RefLists]
  /\ fnOutput = NotReturned

CallBuildFullLawList ==
  /\ fn = "buildFullLawList" /\ ~fnOutput.returned
  /\ fnOutput' = [returned |-> TRUE, value |-> buildFullLawListOf(fnInput.refs)]
  /\ UNCHANGED <<fn, fnInput>>

(***************************************************************************)
(* The two HTTP clients: rateLimit / enforceRateLimit and                  *)
(* fetchWithRateLimit                                                      *)
(*                                                                         *)
(* client is "eli" (the client of api.sejm.gov.pl) or "rada" (the client   *)
(* of zakon.rada.gov.ua).  Two calls of fetchWithRateLimit are made; with  *)
(* overlap the second is made while the first may still run, without it    *)
(* the second is made after the first has ended.  Times are milliseconds;  *)
(* every step is the code that runs between two awaits, and the clock      *)
(* moves to the next timer or response when nothing is left to run.        *)
(***************************************************************************)
VARIABLES client, maxRetries, overlap, now, lastRequestTime, calls, requestLog

fetchVars == <<client, maxRetries, overlap, now, lastRequestTime, calls, requestLog>>

MIN_DELAY_MS == [eli |-> 500, rada |-> 1200]

\* 2^n
RECURSIVE Pow2(_)
Pow2(n) == IF n = 0 THEN 1 ELSE 2 * Pow2(n - 1)

\* Math.pow(2, attempt + 1) * 1000 and 1000 * Math.pow(2, attempt)
Backoff(c, attempt) == IF c = "eli" THEN Pow2(attempt + 1) * 1000 ELSE 1000 * Pow2(attempt)

\* what the server or the network answers to one request
Outcomes == {"200", "404", "429", "503", "network error"}

\* response.status === 429 || response.status >= 500
IsTransient(outcome) == outcome \in {"429", "503"}

\* the time a response takes
Latencies == {100}

\* Date.now() when the program starts, and the times the second call is
\* made after it when the calls overlap
StartClock == 2000

SecondCallAfter == {0, 100, 600, 1500}

MaxRetries == 2

\* a call: where it stands, its attempt counter, the time of the timer or
\* response it waits for, and the outcomes of its requests so far
NotCalled == [pc |-> "not called", attempt |-> 0, wakeAt |-> 0, outcomes |-> <<>>]

\* the retry decision without the attempt < maxRetries tests
AfterResponseUnbounded(cl, max, attempt, outcome) ==
  IF outcome = "network error" THEN (IF cl = "rada" THEN "retry" ELSE "throw")
  ELSE IF IsTransient(outcome) THEN "retry"
  ELSE "return"

\* the retry decision with the last transient response thrown away
AfterResponseThrowsLast(cl, max, attempt, outcome) ==
  IF outcome = "network error"
    THEN (IF cl = "rada" /\ attempt < max THEN "retry" ELSE "throw")
  ELSE IF IsTransient(outcome) THEN (IF attempt < max THEN "retry" ELSE "throw")
  ELSE "return"

\* what a call does with the outcome of a request: the eli client has no
\* catch, so a network error leaves it at once; the rada client retries it
\* like a transient status and throws after the loop
AfterResponse(cl, max, attempt, outcome) ==
  IF outcome = "network error"
    THEN (IF cl = "rada" /\ attempt < max THEN "retry" ELSE "throw")
  ELSE IF IsTransient(outcome) /\ attempt < max THEN "retry"
  ELSE "return"

Active == {"called", "rate sleep", "in flight", "backoff"}

FetchIdle ==
  /\ client = "none" /\ maxRetries = 0 /\ overlap = FALSE /\ now = 0
  /\ lastRequestTime = 0
  /\ calls = <<NotCalled, NotCalled>>
  /\ requestLog = <<>>

InitFetch ==
  /\ client \in {"eli", "rada"}
  /\ maxRetries \in 0..MaxRetries
  /\ overlap \in BOOLEAN
  /\ now = StartClock
  /\ lastRequestTime = 0
  /\ \E d \in SecondCallAfter :
       calls = << [NotCalled EXCEPT !.pc = "called", !.wakeAt = StartClock],
                  IF overlap THEN [NotCalled EXCEPT !.pc = "called", !.wakeAt = StartClock + d]
                  ELSE NotCalled >>
  /\ requestLog = <<>>

\* fetch(url, ...) is called by call c: the request starts now
IssueRequest(c, attempt, stamp) ==
  /\ \E l \in Latencies :
       calls' = [calls EXCEPT ![c] = [pc |-> "in flight", attempt |-> attempt,
                                      wakeAt |-> now + l, outcomes |-> calls[c].outcomes]]
  /\ requestLog' = Append(requestLog, [call |-> c, at |-> now])
  /\ lastRequestTime' = IF stamp THEN now ELSE lastRequestTime

\* rateLimit / enforceRateLimit up to its await, and the request if it
\* does not wait
RateLimitThenRequest(c, attempt) ==
  LET elapsed == now - lastRequestTime
  IN  IF elapsed < MIN_DELAY_MS[client]
        THEN /\ calls' = [calls EXCEPT ![c] = [pc |-> "rate sleep", attempt |-> attempt,
                                               wakeAt |-> now + (MIN_DELAY_MS[client] - elapsed),
                                               outcomes |-> calls[c].outcomes]]
             /\ UNCHANGED <<lastRequestTime, requestLog>>
        ELSE IssueRequest(c, attempt, TRUE)

\* fetchWithRateLimit is called
CallStart ==
  \E c \in 1..2 :
    /\ calls[c].pc = "called" /\ calls[c].wakeAt = now
    /\ RateLimitThenRequest(c, 0)
    /\ UNCHANGED <<client, maxRetries, overlap, now>>

\* the timer of the rate limit fires: lastRequestTime = Date.now(), then fetch
RateWake ==
  \E c \in 1..2 :
    /\ calls[c].pc = "rate sleep" /\ calls[c].wakeAt = now
    /\ IssueRequest(c, calls[c].attempt, TRUE)
    /\ UNCHANGED <<client, maxRetries, overlap, now>>

\* the response, or the network error, of the request in flight arrives
Respond ==
  \E c \in 1..2, outcome \in Outcomes :
    /\ calls[c].pc = "in flight" /\ calls[c].wakeAt = now
    /\ LET attempt == calls[c].attempt
           outcomes == Append(calls[c].outcomes, outcome)
           after == AfterResponse(client, maxRetries, attempt, outcome)
       IN  calls' = [calls EXCEPT ![c] =
             IF after = "retry"
               THEN [pc |-> "backoff", attempt |-> attempt,
                     wakeAt |-> now + Backoff(client, attempt), outcomes |-> outcomes]
             ELSE IF after = "throw"
               THEN [calls[c] EXCEPT !.pc = "thrown", !.outcomes = outcomes]
             ELSE [calls[c] EXCEPT !.pc = "returned", !.outcomes = outcomes]]
    /\ UNCHANGED <<client, maxRetries, overlap, now, lastRequestTime, requestLog>>

\* the backoff timer fires: the next attempt
BackoffWake ==
  \E c \in 1..2 :
    /\ calls[c].pc = "backoff" /\ calls[c].wakeAt = now
    /\ IF client = "eli"
         THEN IssueRequest(c, calls[c].attempt + 1, FALSE)
         ELSE RateLimitThenRequest(c, calls[c].attempt + 1)
    /\ UNCHANGED <<client, maxRetries, overlap, now>>

\* without overlap: the caller awaits the first call, then makes the second
SecondCall ==
  /\ ~overlap /\ calls[1].pc \in {"returned", "thrown"} /\ calls[2].pc = "not called"
  /\ \E d \in SecondCallAfter :
       calls' = [calls EXCEPT ![2] = [NotCalled EXCEPT !.pc = "called", !.wakeAt = now + d]]
  /\ UNCHANGED <<client, maxRetries, overlap, now, lastRequestTime, requestLog>>

\* nothing is left to run at this time: the clock moves to the next event
Advance ==
  LET waiting == {c \in 1..2 : calls[c].pc \in Active}
  IN  /\ waiting # {}
      /\ \A c \in waiting : calls[c].wakeAt > now
      /\ now' = (CHOOSE t \in {calls[c].wakeAt : c \in waiting} :
                   \A c \in waiting : t <= calls[c].wakeAt)
      /\ UNCHANGED <<client, maxRetries, overlap, lastRequestTime, calls, requestLog>>

restVars == <<lookupVars, fetchVars>>

RestIdle == LookupIdle /\ FetchIdle

(***************************************************************************)
(* Specifications                                                          *)
(***************************************************************************)
vars == <<parseVars, remembered, ingestVars, fnVars, restVars>>

\* what a parse step leaves alone
OutsideParse == UNCHANGED <<remembered, ingestVars, fnVars, restVars>>

\* one parse call of either parser
Init == InitParse /\ remembered = NotRemembered /\ IngestIdle /\ FnIdle /\ RestIdle

Next ==
  \/ LocateContainer /\ OutsideParse
  \/ ParagraphIter /\ OutsideParse
  \/ FlushLast /\ OutsideParse
  \/ ReturnActA /\ OutsideParse
  \/ CollectIter /\ OutsideParse
  \/ CollectDone /\ OutsideParse
  \/ ArticleIter /\ OutsideParse
  \/ ReturnActB /\ OutsideParse

Spec == Init /\ [][Next]_vars

\* parse calls in a row
InitCallsAll == InitCalls /\ remembered = NotRemembered /\ IngestIdle /\ FnIdle /\ RestIdle

NextCalls ==
  \/ LocateContainer /\ OutsideParse
  \/ ParagraphIter /\ OutsideParse
  \/ FlushLast /\ OutsideParse
  \/ ReturnActA /\ OutsideParse
  \/ CollectIter /\ OutsideParse
  \/ CollectDone /\ OutsideParse
  \/ ArticleIter /\ OutsideParse
  \/ ReturnActB /\ OutsideParse
  \/ RememberCall /\ UNCHANGED <<ingestVars, fnVars, restVars>>
  \/ NewCall /\ UNCHANGED <<ingestVars, fnVars, restVars>>

SpecCalls == InitCallsAll /\ [][NextCalls]_vars

\* one run of the ingestion driver
InitIngestAll == InitIngest /\ ParseIdle /\ remembered = NotRemembered /\ FnIdle /\ RestIdle

\* what a step of the driver leaves alone
OutsideIngest == UNCHANGED <<parseVars, remembered, fnVars, restVars>>

NextIngestAll ==
  \/ ClearSeeds /\ OutsideIngest
  \/ ResumeSkip /\ OutsideIngest
  \/ FetchLaw /\ OutsideIngest
  \/ HandleLaw /\ OutsideIngest
  \/ PrintSummary /\ OutsideIngest

SpecIngest == InitIngestAll /\ [][NextIngestAll]_vars

\* one call of one function
OutsideFn == UNCHANGED <<parseVars, remembered, ingestVars, restVars>>

InitFns ==
  /\ ParseIdle /\ remembered = NotRemembered /\ IngestIdle /\ RestIdle
  /\ \/ InitReturnAct
     \/ InitMineDefinitions
     \/ InitFindChapterHeading
     \/ InitExtractStatus
     \/ InitHtmlToText
     \/ InitIngestOneLaw
     \/ InitBuildFullLawList

NextFns ==
  \/ CallReturnAct /\ OutsideFn
  \/ CallMineDefinitions /\ OutsideFn
  \/ CallFindChapterHeading /\ OutsideFn
  \/ CallExtractStatus /\ OutsideFn
  \/ CallHtmlToText /\ OutsideFn
  \/ CallIngestOneLaw /\ OutsideFn
  \/ CallBuildFullLawList /\ OutsideFn

SpecFns == InitFns /\ [][NextFns]_vars

\* calls of the curated lookup, in any order
InitLookup == ParseIdle /\ remembered = NotRemembered /\ IngestIdle /\ FnIdle /\ LookupIdle /\ FetchIdle

NextLookup ==
  \/ ResolveKnownCall /\ UNCHANGED <<parseVars, remembered, ingestVars, fnVars, fetchVars>>
  \/ BuildGenericCall /\ UNCHANGED <<parseVars, remembered, ingestVars, fnVars, fetchVars>>

SpecLookup == InitLookup /\ [][NextLookup]_vars

\* two calls of fetchWithRateLimit of one client
InitFetchAll ==
  /\ ParseIdle /\ remembered = NotRemembered /\ IngestIdle /\ FnIdle /\ LookupIdle
  /\ InitFetch

OutsideFetch == UNCHANGED <<parseVars, remembered, ingestVars, fnVars, lookupVars>>

NextFetch ==
  \/ CallStart /\ OutsideFetch
  \/ RateWake /\ OutsideFetch
  \/ Respond /\ OutsideFetch
  \/ BackoffWake /\ OutsideFetch
  \/ SecondCall /\ OutsideFetch
  \/ Advance /\ OutsideFetch

SpecFetch == InitFetchAll /\ [][NextFetch]_vars

\* the same with the event loop running on: a timer that is due fires, a
\* response or an error arrives for every request
SpecFetchFair == SpecFetch /\ WF_vars(NextFetch)

(***************************************************************************)
(* Determinism of the parsers                                              *)
(***************************************************************************)
SameInputAsRemembered ==
  /\ remembered.set /\ remembered.later >= 1
  /\ remembered.input.grammar = grammar
  /\ remembered.input.doc = doc
  /\ remembered.input.law = law

TextOf(i) == htmlToText(area[i])

LabelledTextOf(i) == NormalizeLabel(TextOf(i))

\* block i is dropped before the heading test (empty, or a braced note)
IsSkippedBlock(i) == TextOf(i) = <<>> \/ IsBracedNote(TextOf(i))

IsHeadingBlock(i) == ~IsSkippedBlock(i) /\ headingMatch(LabelledTextOf(i)).matched

\* block i is body text: not skipped, not a heading, not an editorial line
IsBodyBlock(i) ==
  /\ ~IsSkippedBlock(i) /\ ~IsHeadingBlock(i)
  /\ ~IsEditorialLine(LabelledTextOf(i))

HeadingsUpTo(k) == {i \in 1..k : IsHeadingBlock(i)}

\* the last block of the article opened by heading h, among the first k blocks
SegmentEnd(h, k) ==
  IF \E i \in (h + 1)..k : IsHeadingBlock(i)
    THEN (CHOOSE i \in (h + 1)..k :
            IsHeadingBlock(i) /\ \A j \in (h + 1)..(i - 1) : ~IsHeadingBlock(j)) - 1
    ELSE k

\* the body blocks between heading h and the next heading, in document order
LinesOf(h, k) ==
  LET e == SegmentEnd(h, k)
      f[i \in h..e] ==
        IF i = h THEN <<>>
        ELSE IF IsBodyBlock(i) THEN Append(f[i - 1], LabelledTextOf(i)) ELSE f[i - 1]
  IN  f[e]

ProvisionOf(h, k) ==
  buildProvision(headingMatch(LabelledTextOf(h)).section,
                 headingMatch(LabelledTextOf(h)).heading, LinesOf(h, k))

\* the provisions of the headings among blocks 1..n that are closed when k
\* blocks were read, in the order of their heading blocks
ClosedProvisions(n, k) ==
  LET f[i \in 0..n] ==
        IF i = 0 THEN <<>>
        ELSE IF IsHeadingBlock(i) THEN f[i - 1] \o ProvisionOf(i, k) ELSE f[i - 1]
  IN  f[n]

\* C2: Grammar A segmentation.  At every point of the paragraph loop a
\* heading block has closed the article before it and opened a new, empty
\* one; the open article is the one of the nearest preceding heading block
\* and holds exactly the body blocks read since that heading, in order; the
\* finished articles are those of the earlier headings, each with exactly
\* its own body blocks, in the order of the heading blocks; and the returned
\* Act keeps that order.
C2_Segmentation ==
  grammar = "A" =>
    /\ pc = "scan" =>
         LET hs == HeadingsUpTo(pos)
         IN  /\ current.open <=> hs # {}
             /\ hs # {} =>
                  LET h == CHOOSE i \in hs : \A j \in hs : j <= i
                  IN  /\ current.section = headingMatch(LabelledTextOf(h)).section
                      /\ current.heading = headingMatch(LabelledTextOf(h)).heading
                      /\ current.lines = LinesOf(h, pos)
                      /\ articles = ClosedProvisions(h - 1, pos)
             /\ hs = {} => articles = <<>>
    /\ pc = "flushed" => articles = ClosedProvisions(Len(area), Len(area))
    /\ (pc = "done" /\ ClosedProvisions(Len(area), Len(area)) # <<>>) =>
         act.provisions = ApplyFilter(ClosedProvisions(Len(area), Len(area)), law)

\* C2 witness: a returned Act with two provisions, the first with a body block
C2_Witness ==
  /\ grammar = "A" /\ pc = "done" /\ Len(act.provisions) = 2
  /\ \E i \in 1..(Len(area) - 1) : IsHeadingBlock(i) /\ IsBodyBlock(i + 1)
  /\ act.provisions[1].content = BodyBlock

\* tokens that leave nothing in the normalized document body
BlankTokens == {" ", "TAB", "NL", "NBSP", "<tag>", "<br>", "&nbsp;", "&shy;", "&#160;"}

BodyIsBlank == \A i \in 1..Len(area) : \A j \in 1..Len(area[i]) : area[i][j] \in BlankTokens

NoHeadingRecognized == HeadingsUpTo(Len(area)) = {}

IsFallbackOnly(provs) ==
  /\ Len(provs) = 1
  /\ provs[1].section = <<"0">>
  /\ provs[1].provision_ref = <<"art", "0">>

\* C3 as claimed: a page with the container and no recognized heading always
\* yields exactly one provision, of section "0", also with an empty body and
\* also under an allow-list.
C3_FallbackAlways ==
  (grammar = "A" /\ pc = "done" /\ NoHeadingRecognized) => IsFallbackOnly(act.provisions)

\* C3 amended: a page with the container and no recognized heading yields
\* exactly one provision, of section "0" and provision_ref "art0", when its
\* normalized body is not empty and the configuration has no allow-list or
\* an allow-list holding "0"; otherwise it yields no provision at all.
C3_Fallback ==
  (grammar = "A" /\ pc = "done" /\ NoHeadingRecognized) =>
    IF ~BodyIsBlank /\ (law.hasFilter => <<"0">> \in law.articleFilter)
      THEN IsFallbackOnly(act.provisions)
      ELSE act.provisions = <<>>

\* C3 witness: the fallback provision returned under an allow-list
C3_Witness ==
  /\ grammar = "A" /\ pc = "done" /\ NoHeadingRecognized
  /\ law.hasFilter /\ IsFallbackOnly(act.provisions)
  /\ Len(area) >= 1

\* C4: no two provisions of a returned Act have the same provision_ref.
C4_UniqueRefs ==
  pc = "done" =>
    \A i, j \in 1..Len(act.provisions) :
      i # j => act.provisions[i].provision_ref # act.provisions[j].provision_ref

\* C7: repealed placeholder.  Whenever Grammar A finalizes an article (at the
\* next heading block or at the end of the stream) whose normalized body is
\* empty, a provision is appended if and only if the
\* heading holds a repeal marker; its content is then the heading without
\* the enclosing braces, and not empty; without a marker nothing is appended
\* and the parse goes on without error.
C7_RepealedPlaceholder ==
  [][ (/\ grammar = "A" /\ pc = "scan" /\ current.open
       /\ (pos = Len(area) \/ IsHeadingBlock(pos + 1))
       /\ normalizeWhitespace(JoinLines(current.lines)) = <<>>)
      => LET h == normalizeWhitespace(current.heading)
         IN  /\ pc' \in {"scan", "flushed"}
             /\ IF HasRepealMarker(h)
                  THEN /\ Len(articles') = Len(articles) + 1
                       /\ SubSeq(articles', 1, Len(articles)) = articles
                       /\ articles'[Len(articles')].content = StripBraces(h)
                       /\ articles'[Len(articles')].content # <<>>
                       /\ articles'[Len(articles')].section = current.section
                  ELSE articles' = articles ]_vars

\* C7 witness: a returned placeholder whose content is the heading without braces
C7_Witness ==
  /\ grammar = "A" /\ pc = "done"
  /\ \E i \in 1..Len(act.provisions) :
       act.provisions[i].content = <<"Stattyu", " ", "vyklyucheno">>

\* some character of the text is not whitespace
NotBlank(text) == \E i \in 1..Len(text) : text[i] \notin JsSpace

\* C8: every provision, finished or returned, of either parser has content
\* that is not empty and not whitespace only; in Grammar B it has at least
\* 5 characters.
C8_ContentNotBlank ==
  \A p \in {articles[i] : i \in 1..Len(articles)} \cup
           {act.provisions[i] : i \in 1..Len(act.provisions)} :
    /\ NotBlank(p.content)
    /\ grammar = "B" => TextLen(p.content) >= 5

\* C8 witness: Grammar B returned one provision and dropped a container
\* whose body is whitespace and markup only
C8_Witness ==
  /\ grammar = "B" /\ pc = "done" /\ Len(doc) = 2
  /\ Len(act.provisions) = 1
  /\ \E i \in 1..2 : doc[i].segs = 1 /\ doc[i].heading = <<>>
                     /\ \A j \in 1..Len(doc[i].body) : doc[i].body[j] \in BlankTokens

\* C9: a single block whose text is "Stattya 5. Heading", a line break,
\* "Body text" yields the provision of section "5", provision_ref "art5",
\* a title containing "Stattya 5. Heading" and the content "Body text".
C9_RoundTrip ==
  (/\ grammar = "A" /\ pc = "done" /\ ~law.hasFilter /\ Len(area) = 1
   /\ TextOf(1) = <<"Stattya", " ", "5", ".", " ", "Heading", "NL", "Body", " ", "text">>)
  => /\ Len(act.provisions) = 1
     /\ act.provisions[1].section = <<"5">>
     /\ act.provisions[1].provision_ref = <<"art", "5">>
     /\ Includes(act.provisions[1].title, <<"Stattya", " ", "5", ".", " ", "Heading">>)
     /\ act.provisions[1].content = <<"Body", " ", "text">>

\* a heading block "Stattya 5<h>1..." with h among the hyphens hs, then a body block
IsRangeHeadingPage(hs) ==
  /\ Len(area) = 2 /\ area[2] = BodyBlock
  /\ \E h \in hs : StartsWith(TextOf(1), <<"Stattya", " ", "5", h, "1">>)

HasRangeProvision ==
  /\ Len(act.provisions) = 1
  /\ act.provisions[1].section = <<"5", "-", "1">>
  /\ act.provisions[1].provision_ref = <<"art", "5", "-", "1">>

NoUnicodeHyphen(text) == \A i \in 1..Len(text) : text[i] \notin HYPHEN_VARIANTS

\* C10: a heading "Stattya N<h>M" with h any of U+2010..U+2014 yields section
\* "N-M" and provision_ref "artN-M"; no section or provision_ref holds a
\* Unicode hyphen.
C10_HyphenNormalized ==
  (grammar = "A" /\ pc = "done") =>
    /\ (~law.hasFilter /\ IsRangeHeadingPage(HYPHEN_VARIANTS)) => HasRangeProvision
    /\ \A i \in 1..Len(act.provisions) :
         /\ NoUnicodeHyphen(act.provisions[i].section)
         /\ NoUnicodeHyphen(act.provisions[i].provision_ref)

\* the same for the four hyphens of the heading pattern, U+2011..U+2014
C10_FourHyphens ==
  (grammar = "A" /\ pc = "done") =>
    /\ (~law.hasFilter /\ IsRangeHeadingPage(HeadingHyphens \ {"-"})) => HasRangeProvision
    /\ \A i \in 1..Len(act.provisions) :
         /\ NoUnicodeHyphen(act.provisions[i].section)
         /\ NoUnicodeHyphen(act.provisions[i].provision_ref)

(***************************************************************************)
(* The driver on a failing law                                             *)
(***************************************************************************)
\* the driver goes on after law idx + 1: to the next law, or to the summary
GoesOn ==
  /\ idx' = idx + 1
  /\ ingPc' = IF idx' < Len(ingLaws) THEN "loop" ELSE "summary"

\* law idx + 1 is counted as failed with message msg, and no file is written
CountedFailed(msg) ==
  /\ stats'.failed = stats.failed + 1
  /\ stats'.processed = stats.processed
  /\ stats'.skipped = stats.skipped
  /\ seedFiles' = seedFiles
  /\ failureLog' = Append(failureLog, [law |-> idx + 1, msg |-> msg])

\* C5: structural failure.  For a fetched /print page without the
\* id="article" element parseLawPrintHtml raises an error and returns no
\* Act; runIngestion counts the law as failed, writes no seed file for it,
\* and goes on with the next law.
C5_StructuralFailure ==
  [][ (ingPc = "fetched" /\ fetched.outcome = "ok" /\ ~fetched.printHtml.hasContainer)
      => /\ parseLawPrintHtml(fetched.printHtml, ingLaws[idx + 1]) = Thrown
         /\ CountedFailed(MsgNoArticleBody)
         /\ GoesOn ]_vars

\* C5 witness: a law failed for the missing container, has no seed file, and
\* a later law of the run was written
C5_Witness ==
  \E k \in 1..Len(failureLog) :
    /\ failureLog[k].msg = MsgNoArticleBody
    /\ seedFiles[failureLog[k].law] = SeedAbsent
    /\ \E j \in (failureLog[k].law + 1)..Len(ingLaws) : seedFiles[j].state = "written"

\* every token of every block of the page is blank
PageIsBlank(page) ==
  \A i \in 1..Len(page.blocks) :
    \A j \in 1..Len(page.blocks[i]) : page.blocks[i][j] \in BlankTokens

\* the sections of the provisions the page yields without an allow-list
SectionsOfPage(page) ==
  LET all == parseLawPrintHtml(page, NoLaw).provisions
  IN  {all[i].section : i \in 1..Len(all)}

\* the configuration has an allow-list and none of the page's sections is in it
NothingAllowed(page, l) == l.hasFilter /\ SectionsOfPage(page) \cap l.articleFilter = {}

\* C6: empty result.  For a fetched /print page that has the article body
\* and yields zero provisions (a blank body, or nothing in the allow-list)
\* the parser raises nothing: it returns an Act without provisions; the
\* driver raises 'No provisions extracted' itself, counts the law as failed,
\* writes no seed file for it, and goes on with the next law.
C6_EmptyResult ==
  [][ (/\ ingPc = "fetched" /\ fetched.outcome = "ok" /\ fetched.printHtml.hasContainer
       /\ \/ PageIsBlank(fetched.printHtml)
          \/ NothingAllowed(fetched.printHtml, ingLaws[idx + 1]))
      => /\ parseLawPrintHtml(fetched.printHtml, ingLaws[idx + 1]) = [provisions |-> <<>>]
         /\ CountedFailed(MsgNoProvisions)
         /\ GoesOn ]_vars

\* C6 witness: one law failed on a blank body, another because the
\* allow-list kept nothing; neither has a seed file, and a later law was written
C6_Witness ==
  \E k, m \in 1..Len(failureLog) :
    /\ failureLog[k].msg = MsgNoProvisions /\ failureLog[m].msg = MsgNoProvisions
    /\ ~ingLaws[failureLog[k].law].hasFilter
    /\ ingLaws[failureLog[m].law].hasFilter
    /\ seedFiles[failureLog[k].law] = SeedAbsent
    /\ seedFiles[failureLog[m].law] = SeedAbsent
    /\ \E j \in 1..Len(ingLaws) :
         j > failureLog[k].law /\ j > failureLog[m].law /\ seedFiles[j].state = "written"

(***************************************************************************)
(* Definitions of a returned Act, Grammar A                                *)
(***************************************************************************)
ReturnActDone == fn = "ReturnAct" /\ fnOutput.returned

\* the line pattern applied to line l of provision p
CandidateMatch(provisions, p, l) == DefLineMatch(SplitLines(provisions[p].content)[l])

\* the entry line l of provision p gives rise to
CandidateEntry(provisions, p, l) ==
  [term |-> NormalizedTerm(CandidateMatch(provisions, p, l).term),
   definition |-> NormalizedDef(CandidateMatch(provisions, p, l).def),
   source_provision |-> provisions[p].provision_ref]

\* the places <<p, l>> of the candidates that pass the acceptance filter
AcceptedPlaces(provisions) ==
  {pl \in UNION {{<<p, l>> : l \in 1..Len(SplitLines(provisions[p].content))} :
                   p \in 1..Len(provisions)} :
     /\ isDefinitionArticle(provisions[pl[1]])
     /\ CandidateMatch(provisions, pl[1], pl[2]).matched
     /\ \A i \in 1..Len(CandidateMatch(provisions, pl[1], pl[2]).term) :
          Lower(CandidateMatch(provisions, pl[1], pl[2]).term[i]) # "dali"
     /\ TextLen(CandidateEntry(provisions, pl[1], pl[2]).term) \in 2..160
     /\ TextLen(CandidateEntry(provisions, pl[1], pl[2]).definition) >= 8}

KeyAt(provisions, pl) == toLowerCase(CandidateEntry(provisions, pl[1], pl[2]).term)

\* place a comes before place b in document order
PlaceBefore(a, b) == a[1] < b[1] \/ (a[1] = b[1] /\ a[2] < b[2])

\* pl is the first accepted place of its term
IsFirstPlace(provisions, pl) ==
  \A other \in AcceptedPlaces(provisions) :
    KeyAt(provisions, other) = KeyAt(provisions, pl) => ~PlaceBefore(other, pl)

\* C11: definition dedup, Grammar A.  In a returned Act no two Definition
\* entries have terms that are equal ignoring case; every term with an
\* accepted candidate has one entry, and that entry carries the term, the
\* definition and the source_provision of the first accepted candidate of
\* the term in document order.
C11_DefinitionDedup ==
  (ReturnActDone /\ fnInput.options.extractDefinitions) =>
    LET provs == fnOutput.value.provisions
        defs == fnOutput.value.definitions
    IN  /\ \A i, j \in 1..Len(defs) :
             i # j => toLowerCase(defs[i].term) # toLowerCase(defs[j].term)
        /\ \A pl \in AcceptedPlaces(provs) :
             IsFirstPlace(provs, pl) =>
               \E i \in 1..Len(defs) : defs[i] = CandidateEntry(provs, pl[1], pl[2])
        /\ \A i \in 1..Len(defs) :
             \E pl \in AcceptedPlaces(provs) :
               IsFirstPlace(provs, pl) /\ defs[i] = CandidateEntry(provs, pl[1], pl[2])

\* C11 witness: two returned provisions define the same term in different
\* case, and the one entry is that of the first
C11_Witness ==
  /\ ReturnActDone
  /\ Len(fnOutput.value.provisions) = 2
  /\ \E a, b \in AcceptedPlaces(fnOutput.value.provisions) :
       /\ a[1] = 1 /\ b[1] = 2
       /\ KeyAt(fnOutput.value.provisions, a) = KeyAt(fnOutput.value.provisions, b)
       /\ CandidateEntry(fnOutput.value.provisions, a[1], a[2]).term
            # CandidateEntry(fnOutput.value.provisions, b[1], b[2]).term
  /\ Len(fnOutput.value.definitions) = 1
  /\ fnOutput.value.definitions[1].source_provision = <<"art", "1">>

\* the elements of arts at the indices of S, in increasing order
RECURSIVE PickInOrder(_, _)
PickInOrder(arts, S) ==
  IF S = {} THEN <<>>
  ELSE LET m == CHOOSE x \in S : \A y \in S : y <= x
       IN  Append(PickInOrder(arts, S \ {m}), arts[m])

\* C14: allow-list before definitions.  Under an allow-list the returned
\* provisions are exactly the articles whose section is in the allow-list,
\* in their original order, and every returned Definition has the
\* provision_ref of a returned provision as its source_provision: none is
\* mined from a filtered-out article.
C14_AllowListFirst ==
  (ReturnActDone /\ fnInput.law.hasFilter) =>
    LET arts == fnInput.articles
        provs == fnOutput.value.provisions
        defs == fnOutput.value.definitions
    IN  /\ provs = PickInOrder(arts, {i \in 1..Len(arts) :
                                        arts[i].section \in fnInput.law.articleFilter})
        /\ \A i \in 1..Len(defs) :
             \E k \in 1..Len(provs) : defs[i].source_provision = provs[k].provision_ref

\* C14 witness: an article with an accepted candidate is filtered out, and
\* the definitions returned come from the article that is kept
C14_Witness ==
  /\ ReturnActDone /\ fnInput.law.hasFilter
  /\ Len(fnInput.articles) = 2 /\ Len(fnOutput.value.provisions) = 1
  /\ fnOutput.value.provisions[1].section = <<"1">>
  /\ \E pl \in AcceptedPlaces(fnInput.articles) : pl[1] = 2
  /\ Len(fnOutput.value.definitions) >= 1

(***************************************************************************)
(* Definitions of a returned Act, Grammar B, and the acceptance filter     *)
(***************************************************************************)
MineDefinitionsDone == fn = "MineDefinitions" /\ fnOutput.returned

\* C12: definition dedup, Grammar B.  In an Act returned by
\* parseUkrainianHtml no two Definition entries have terms that are equal
\* ignoring case, whether they come from two articles or from the two
\* patterns applied to one article.
C12_DefinitionDedupEli ==
  MineDefinitionsDone =>
    \A i, j \in 1..Len(fnOutput.value.definitions) :
      i # j => toLowerCase(fnOutput.value.definitions[i].term)
                 # toLowerCase(fnOutput.value.definitions[j].term)

\* C13: acceptance filter.  Every Definition entry returned by either
\* parser has a term of 2 to 160 characters and a definition of at least 8
\* characters.
C13_AcceptanceFilter ==
  (ReturnActDone \/ MineDefinitionsDone) =>
    \A i \in 1..Len(fnOutput.value.definitions) :
      /\ TextLen(fnOutput.value.definitions[i].term) \in 2..160
      /\ TextLen(fnOutput.value.definitions[i].definition) >= 8

\* the same for Grammar A alone
C13_AcceptanceFilterPrint ==
  ReturnActDone =>
    \A i \in 1..Len(fnOutput.value.definitions) :
      /\ TextLen(fnOutput.value.definitions[i].term) \in 2..160
      /\ TextLen(fnOutput.value.definitions[i].definition) >= 8

(***************************************************************************)
(* The article loop of Grammar B                                           *)
(***************************************************************************)
TopLevel == {i \in 1..Len(doc) : doc[i].segs = 1}

\* C15: nested-article exclusion, Grammar B.  No provision is emitted for a
\* container whose id holds two or more "arti_" segments: the articles the
\* loop works on are exactly the containers with one segment scanned so
\* far, in document order, and the returned Act has at most one provision
\* per such container.
C15_NestedExcluded ==
  grammar = "B" =>
    /\ \A k \in 1..Len(articleStarts) : doc[articleStarts[k]].segs = 1
    /\ \A k \in 1..(Len(articleStarts) - 1) : articleStarts[k] < articleStarts[k + 1]
    /\ pc \in {"start", "collect"} =>
         {articleStarts[k] : k \in 1..Len(articleStarts)} = {i \in TopLevel : i <= pos}
    /\ pc \in {"emit", "done"} =>
         /\ {articleStarts[k] : k \in 1..Len(articleStarts)} = TopLevel
         /\ Len(articles) <= Cardinality(TopLevel)
    /\ pc = "done" => Len(act.provisions) <= Cardinality(TopLevel)

\* a page with a nested container after a top-level one has been parsed
C15_Witness ==
  /\ grammar = "B" /\ pc = "done"
  /\ \E i \in 1..Len(doc) : doc[i].segs = 2
  /\ Len(act.provisions) = 1 /\ Len(doc) = 2 /\ doc[1].segs = 1

\* the normalized text of article k of articleStarts
ArticleText(k) ==
  LET startPos == articleStarts[k]
      endPos == IF k + 1 <= Len(articleStarts) THEN articleStarts[k + 1] - 1 ELSE Len(doc)
  IN  stripHtml(RemoveHeading(SpanHtml(doc, startPos, endPos)))

\* C16: truncation, Grammar B.  The iteration for an article whose
\* normalized text has more than 12,000 characters emits one provision
\* whose content is the first 12,000 characters of that text, and the call
\* goes on without an error; no emitted content is longer than 12,000
\* characters.
C16_Truncation ==
  [][ (grammar = "B" /\ pc = "emit" /\ pos < Len(articleStarts)) =>
        LET full == ArticleText(pos + 1)
        IN  /\ pc' \in {"emit", "done"}
            /\ \A k \in 1..Len(articles') : TextLen(articles'[k].content) <= ContentCap
            /\ TextLen(full) > ContentCap =>
                 /\ Len(articles') = Len(articles) + 1
                 /\ TextLen(articles'[Len(articles')].content) = ContentCap
                 /\ StartsWith(full, articles'[Len(articles')].content) ]_vars

\* a returned Act with a provision cut at the cap
C16_Witness ==
  /\ grammar = "B" /\ pc = "done"
  /\ \E k \in 1..Len(act.provisions) :
       /\ TextLen(act.provisions[k].content) = ContentCap
       /\ TextLen(ArticleText(k)) > ContentCap

(***************************************************************************)
(* The chapter of a provision, Grammar B                                   *)
(***************************************************************************)
FindDone == fn = "findChapterHeading" /\ fnOutput.returned

\* the first character of the window
WindowStart ==
  IF fnInput.articlePos - LookbackWindow > 0 THEN fnInput.articlePos - LookbackWindow ELSE 0

\* a heading marker of either vocabulary starts at token i of the text w
MarkerAt(w, i) == ChapterMatchAt(w, i).matched \/ DzialMatchAt(w, i).matched

\* the word and the number of the marker at token i of w
MarkerLabelAt(w, i) ==
  IF ChapterMatchAt(w, i).matched
    THEN <<"Rozdzial", " ">> \o Trim(ChapterMatchAt(w, i).num)
    ELSE <<"Dzial", " ">> \o Trim(DzialMatchAt(w, i).num)

\* the last token of the marker at token i of w
MarkerLast(w, i) ==
  IF ChapterMatchAt(w, i).matched THEN ChapterMatchAt(w, i).last ELSE DzialMatchAt(w, i).last

\* the marker at token i of the page ends at or before the first character
\* of the window
EntirelyBefore(i) ==
  LET html == fnInput.html
      last == MarkerLast(html, i)
  IN  Offset(html, last) + TokLen(html[last]) <= WindowStart

\* C17: bounded chapter lookback, Grammar B.  findChapterHeading reads the
\* 10,000 characters before the article container only: the label it
\* returns is that of a marker that does not lie entirely before the
\* window, and when every marker of the page lies entirely before the
\* window, or there is none, the chapter is undefined.
C17_BoundedLookback ==
  FindDone =>
    LET html == fnInput.html
        near == {i \in 1..Len(html) : MarkerAt(html, i) /\ ~EntirelyBefore(i)}
    IN  /\ fnOutput.value.defined =>
             \E i \in near : StartsWith(fnOutput.value.label, MarkerLabelAt(html, i))
        /\ near = {} => fnOutput.value = NoChapter

\* a page whose only markers lie before the window: no chapter
C17_Witness ==
  /\ FindDone
  /\ \E i \in 1..Len(fnInput.html) : MarkerAt(fnInput.html, i) /\ EntirelyBefore(i)
  /\ \A i \in 1..Len(fnInput.html) : MarkerAt(fnInput.html, i) => EntirelyBefore(i)
  /\ fnOutput.value = NoChapter

\* C18: last match wins, Grammar B.  When heading markers of the two
\* vocabularies lie inside the window, the label returned is that of the
\* marker that comes last before the article, whichever vocabulary it
\* belongs to.
C18_LastMatchWins ==
  FindDone =>
    LET w == BeforeArticle(fnInput.html, fnInput.articlePos)
        inside == {i \in 1..Len(w) : MarkerAt(w, i)}
    IN  inside # {} =>
          LET last == CHOOSE x \in inside : \A y \in inside : y <= x
          IN  /\ fnOutput.value.defined
              /\ StartsWith(fnOutput.value.label, MarkerLabelAt(w, last))

\* the same among pages whose markers are all of one vocabulary
C18_LastOfOneVocabulary ==
  FindDone =>
    LET w == BeforeArticle(fnInput.html, fnInput.articlePos)
        inside == {i \in 1..Len(w) : MarkerAt(w, i)}
    IN  (inside # {} /\ (\/ \A i \in inside : ChapterMatchAt(w, i).matched
                         \/ \A i \in inside : ~ChapterMatchAt(w, i).matched)) =>
          LET last == CHOOSE x \in inside : \A y \in inside : y <= x
          IN  /\ fnOutput.value.defined
              /\ StartsWith(fnOutput.value.label, MarkerLabelAt(w, last))

(***************************************************************************)
(* The status of an act                                                    *)
(***************************************************************************)
StatusDone == fn = "extractStatus" /\ fnOutput.returned

\* the verdict of the generic status label of a page, "none" if it gives none
LabelVerdict(html) ==
  LET m == statusSpan(html)
  IN  IF ~m.matched THEN "none"
      ELSE IF \/ WordIncludes(m.cls, "valid") \/ TextIncludes(m.text, "valid")
              \/ TextIncludes(m.text, "chynnyi")
        THEN "in_force"
      ELSE IF TextIncludes(m.text, "repealed") \/ TextIncludes(m.text, "nechynnyi")
        THEN "repealed"
      ELSE "none"

\* C19: status detector chain.  extractStatus returns the verdict of the
\* first detector that matches, in the order valid badge (in_force),
\* invalid, notvalid, obsolete or disabled badge (repealed), generic status
\* label, "not yet in force" phrase (not_yet_in_force), and in_force when
\* none matches: a later detector never overrides an earlier one.
C19_DetectorChain ==
  StatusDone =>
    LET html == fnInput.html
        valid == HasBadge(html, {"valid"})
        invalid == HasBadge(html, {"invalid", "notvalid", "obsolete", "disabled"})
        label == LabelVerdict(html)
        phrase == HasNotYetPhrase(html)
    IN  /\ valid => fnOutput.value = "in_force"
        /\ (~valid /\ invalid) => fnOutput.value = "repealed"
        /\ (~valid /\ ~invalid /\ label # "none") => fnOutput.value = label
        /\ (~valid /\ ~invalid /\ label = "none" /\ phrase) =>
             fnOutput.value = "not_yet_in_force"
        /\ (~valid /\ ~invalid /\ label = "none" /\ ~phrase) => fnOutput.value = "in_force"

\* a page on which a badge, the generic label and the phrase all match
C19_Witness ==
  /\ StatusDone
  /\ HasBadge(fnInput.html, {"invalid", "notvalid", "obsolete", "disabled"})
  /\ LabelVerdict(fnInput.html) = "in_force"
  /\ HasNotYetPhrase(fnInput.html)
  /\ fnOutput.value = "repealed"

(***************************************************************************)
(* The normalizer never fails                                              *)
(***************************************************************************)
HtmlToTextDone == fn = "htmlToText" /\ fnOutput.returned

\* C20: normalizer totality.  decodeHtmlEntities and htmlToText return a
\* text and raise no exception for every input, named entities without a
\* mapping and numeric references that are not a valid code point included.
C20_NormalizerTotal ==
  HtmlToTextDone => ~fnOutput.value.thrown

\* the part that holds: without a numeric reference above U+10FFFF the call
\* returns a text in which an unmapped named entity stands as it was
C20_UnmappedIntact ==
  (HtmlToTextDone /\ \A i \in 1..Len(fnInput.html) :
                       fnInput.html[i] \notin {"&#1114112;", "&#x110000;"}) =>
    /\ ~fnOutput.value.thrown
    /\ \A c \in {"&copy;", "&#<many digits>;"} :
         (\E i \in 1..Len(fnInput.html) : fnInput.html[i] = c)
           => \E k \in 1..Len(fnOutput.value.text) : fnOutput.value.text[k] = c

(***************************************************************************)
(* The English title of an act                                             *)
(***************************************************************************)
IngestOneLawDone == fn = "ingestOneLaw" /\ fnOutput.returned

\* C21: English title resolution.  Along the ingestion path the title_en
\* of the Act is the extracted page title only if that title contains a
\* Latin letter and no Cyrillic character; in every other case (no title,
\* Cyrillic present, English fetch disabled) it is the titleEnFallback of
\* the caller.
C21_EnglishTitle ==
  IngestOneLawDone =>
    LET title == extractPageTitle(fnInput.enHtml)
        accepted == /\ fnInput.options.fetchEn
                    /\ \E i \in 1..Len(title) : title[i] \in LatinTokens
                    /\ \A i \in 1..Len(title) : title[i] \notin CyrillicTokens
    IN  fnOutput.value.title_en =
          IF accepted THEN title ELSE fnInput.law.titleEnFallback

\* a page title with Latin and Cyrillic words: the fallback is used
C21_Witness ==
  /\ IngestOneLawDone /\ fnInput.options.fetchEn
  /\ LET title == extractPageTitle(fnInput.enHtml)
     IN  /\ \E i \in 1..Len(title) : title[i] \in LatinTokens
         /\ \E i \in 1..Len(title) : title[i] \in CyrillicTokens
  /\ fnInput.law.titleEnFallback # <<>>
  /\ fnOutput.value.title_en = fnInput.law.titleEnFallback

\* a page title in Latin letters: it is the title_en
C21_WitnessAccepted ==
  /\ IngestOneLawDone
  /\ fnOutput.value.title_en = <<"On", " ", "Data">>
  /\ fnInput.law.titleEnFallback # <<>>

(***************************************************************************)
(* The curated lookup                                                      *)
(***************************************************************************)
\* the curated entry a reference stands for: the last law of TARGET_LAWS
\* with the same normalized reference, 0 if there is none
CuratedIndex(reference) ==
  LET same == {i \in 1..Len(TARGET_LAWS) :
                 normalizeReference(TARGET_LAWS[i].reference) = normalizeReference(reference)}
  IN  IF same = {} THEN 0 ELSE CHOOSE i \in same : \A j \in same : j <= i

\* C22: lazy curated lookup.  Over any sequence of calls of
\* resolveKnownLawByReference and buildGenericTargetLaw the map is populated
\* exactly once, by the first call, and never changes afterwards; the same
\* reference always resolves to the same curated entry, or to none.
C22_PopulatedOnce ==
  [][ /\ lookups = <<>> => (populations = 0 /\ populations' = 1)
      /\ lookups # <<>> =>
           (populations' = populations /\ CURATED_BY_REFERENCE' = CURATED_BY_REFERENCE)
      /\ DOMAIN CURATED_BY_REFERENCE' =
           {normalizeReference(TARGET_LAWS[i].reference) : i \in 1..Len(TARGET_LAWS)}
      /\ \A a, b \in 1..Len(lookups') :
           lookups'[a].reference = lookups'[b].reference =>
             lookups'[a].found = lookups'[b].found
      /\ \A a \in 1..Len(lookups') :
           LET i == CuratedIndex(lookups'[a].reference)
           IN  /\ lookups'[a].found <=> i # 0
               /\ i # 0 => lookups'[a].id = TARGET_LAWS[i].id ]_vars

\* three calls, the same reference resolved by the first and the last
C22_Witness ==
  /\ Len(lookups) = 3 /\ populations = 1
  /\ lookups[1].reference = lookups[3].reference
  /\ lookups[1].found /\ ~lookups[2].found

(***************************************************************************)
(* The ids of the full-mode law list                                       *)
(***************************************************************************)
BuildFullLawListDone == fn = "buildFullLawList" /\ fnOutput.returned

\* C23: corpus id uniqueness.  The list ensureUniqueLawIds returns, and so
\* the full-mode law list, holds no two laws with the same id, also when a
\* generated id already ends in a numeric suffix such as "-2".
C23_UniqueIds ==
  BuildFullLawListDone =>
    \A i, j \in 1..Len(fnOutput.value) :
      i # j => fnOutput.value[i].id # fnOutput.value[j].id

\* what holds: the list keeps its length, and the first law with an id
\* keeps it
C23_FirstKeepsId ==
  BuildFullLawListDone =>
    /\ Len(fnOutput.value) = Len(fnInput.refs)
    /\ fnInput.refs # <<>> =>
         fnOutput.value[1].id
           = GenericLaw(MapGet(SetAll(EmptyMap, 1), fnInput.refs[1]), fnInput.refs[1], "00001").id

(***************************************************************************)
(* The HTTP clients                                                        *)
(***************************************************************************)
\* the number of requests call c has issued, in the state and in the next
RequestsOf(c) == Cardinality({i \in 1..Len(requestLog) : requestLog[i].call = c})

RequestsOfNext(c) == Cardinality({i \in 1..Len(requestLog') : requestLog'[i].call = c})

Ended(c) == calls[c].pc \in {"returned", "thrown"}

\* C24: bounded retries.  One call of fetchWithRateLimit issues at most
\* maxRetries+1 requests; it issues a further request only after a 429
\* status, a 5xx status or, in the zakon.rada client, a network error; a
\* response with any other status is returned at once; and every call ends
\* by returning a result or throwing.
C24_BoundedRetries ==
  /\ [][ \A c \in 1..2 :
           /\ RequestsOfNext(c) <= maxRetries + 1
           /\ (RequestsOfNext(c) > RequestsOf(c) /\ RequestsOf(c) > 0) =>
                LET last == calls[c].outcomes[Len(calls[c].outcomes)]
                IN  /\ Len(calls[c].outcomes) = RequestsOf(c)
                    /\ \/ IsTransient(last)
                       \/ client = "rada" /\ last = "network error"
           /\ (calls[c].pc = "in flight" /\ calls'[c].pc # "in flight") =>
                LET last == calls'[c].outcomes[Len(calls'[c].outcomes)]
                IN  last \in {"200", "404"} =>
                      (calls'[c].pc = "returned" /\ RequestsOfNext(c) = RequestsOf(c)) ]_vars
  /\ <>(Ended(1) /\ Ended(2))

\* a call that used every attempt: maxRetries+1 requests, two retries
C24_Witness ==
  \E c \in 1..2 :
    /\ Ended(c) /\ maxRetries = 2 /\ RequestsOf(c) = 3
    /\ calls[c].outcomes[1] = "429" /\ calls[c].outcomes[2] = "503"

\* C25: minimum inter-request delay.  Any two successive requests started
\* through fetchWithRateLimit are at least MIN_DELAY_MS apart, also when
\* two calls overlap.
C25_MinDelay ==
  \A i \in 1..(Len(requestLog) - 1) :
    requestLog[i + 1].at - requestLog[i].at >= MIN_DELAY_MS[client]

\* what holds: the requests of the zakon.rada client are MIN_DELAY_MS
\* apart when the calls are made one after the other
C25_MinDelayRadaInSequence ==
  (client = "rada" /\ ~overlap) =>
    \A i \in 1..(Len(requestLog) - 1) :
      requestLog[i + 1].at - requestLog[i].at >= MIN_DELAY_MS[client]

\* C30: retry exhaustion, zakon.rada client.  When every attempt ends with
\* a 429 or 5xx response the call returns the last response instead of
\* throwing; it throws only when the final attempt failed with a network
\* error, and then after exactly maxRetries+1 attempts.
C30_ExhaustionOutcome ==
  client = "rada" =>
    \A c \in 1..2 :
      Ended(c) =>
        LET outcomes == calls[c].outcomes
            last == outcomes[Len(outcomes)]
        IN  /\ (\A i \in 1..Len(outcomes) : IsTransient(outcomes[i])) =>
                 (calls[c].pc = "returned" /\ Len(outcomes) = maxRetries + 1)
            /\ calls[c].pc = "thrown" =>
                 /\ last = "network error"
                 /\ Len(outcomes) = maxRetries + 1
                 /\ RequestsOf(c) = maxRetries + 1
            /\ calls[c].pc = "returned" => last # "network error"

\* a call of the zakon.rada client that got 503, 429, 503 and returned
C30_Witness ==
  /\ client = "rada" /\ maxRetries = 2
  /\ \E c \in 1..2 :
       /\ calls[c].pc = "returned"
       /\ calls[c].outcomes = <<"503", "429", "503">>

(***************************************************************************)
(* The generic status label                                                *)
(***************************************************************************)
NoExactBadge(html) ==
  ~HasBadge(html, {"valid", "invalid", "notvalid", "obsolete", "disabled"})

\* C26: generic status label.  When no exact valid or invalid badge is
\* present and the generic status label found after "Document" has the text
\* "nechynnyi" (or "repealed"), extractStatus returns repealed, not in_force.
C26_LabelRepealed ==
  (StatusDone /\ NoExactBadge(fnInput.html)) =>
    LET m == statusSpan(fnInput.html)
    IN  (m.matched /\ (\/ TextIncludes(m.text, "nechynnyi")
                       \/ TextIncludes(m.text, "repealed")))
          => fnOutput.value = "repealed"

\* what the code keeps of it: the label text "repealed" alone, under a class
\* that does not contain "valid", gives repealed
C26_RepealedWordOnly ==
  (StatusDone /\ NoExactBadge(fnInput.html)) =>
    LET m == statusSpan(fnInput.html)
    IN  (/\ m.matched /\ TextIncludes(m.text, "repealed")
         /\ ~WordIncludes(m.cls, "valid") /\ ~TextIncludes(m.text, "valid")
         /\ ~TextIncludes(m.text, "chynnyi"))
          => fnOutput.value = "repealed"

(***************************************************************************)
(* The span of an article, Grammar B                                       *)
(***************************************************************************)
\* the content a provision gets from the normalized text t
CapContent(t) == IF TextLen(t) > ContentCap THEN Substring0(t, ContentCap) ELSE t

\* the normalized text of the span from article k of articleStarts to the
\* start of the next container of the page, retained or not
OwnText(k) ==
  stripHtml(RemoveHeading(SpanHtml(doc, articleStarts[k], articleStarts[k])))

\* C27: Grammar B span bound.  The text of an emitted provision is taken
\* from a span that ends at the start of the next article container of the
\* document (or at document end), whether or not that container is itself
\* retained: the content of an outermost article never includes text of a
\* nested amendment sub-article container that follows it.
C27_SpanEndsAtNextContainer ==
  [][ (grammar = "B" /\ pc = "emit" /\ pos < Len(articleStarts)
         /\ Len(articles') > Len(articles)) =>
        articles'[Len(articles')].content = CapContent(OwnText(pos + 1)) ]_vars

\* what the code does: the span ends at the start of the next retained
\* container (or at document end)
C27_SpanEndsAtNextRetained ==
  [][ (grammar = "B" /\ pc = "emit" /\ pos < Len(articleStarts)
         /\ Len(articles') > Len(articles)) =>
        articles'[Len(articles')].content = CapContent(ArticleText(pos + 1)) ]_vars

(***************************************************************************)
(* The counters and the seed directory of a run                            *)
(***************************************************************************)
Handled == stats.processed + stats.skipped + stats.failed

\* exactly one of the three counters goes up by one, the others stay
OneCounterUp ==
  \E c \in {"processed", "skipped", "failed"} :
    /\ stats'[c] = stats[c] + 1
    /\ \A d \in {"processed", "skipped", "failed"} \ {c} : stats'[d] = stats[d]

\* C28: ingestion accounting.  After each iteration of runIngestion,
\* processed + skipped + failed equals the number of laws handled so far;
\* every law increments exactly one of the three counters, a seed file is
\* written only for a law counted as processed, and a failure of one law
\* never prevents the remaining laws from being handled.
C28_Accounting ==
  /\ [](ingPc \in {"loop", "summary", "done"} => Handled = idx)
  /\ [](ingPc \in {"summary", "done"} => idx = Len(ingLaws))
  /\ [][ /\ idx' # idx => (idx' = idx + 1 /\ OneCounterUp)
         /\ idx' = idx => stats' = stats
         /\ (ingPc # "main" /\ seedFiles' # seedFiles) =>
              /\ stats'.processed = stats.processed + 1
              /\ seedFiles'[idx + 1].state = "written"
              /\ \A k \in DOMAIN seedFiles \ {idx + 1} : seedFiles'[k] = seedFiles[k]
         /\ stats'.failed # stats.failed => GoesOn ]_vars

\* a finished run in which a law failed and later laws were skipped and
\* processed
C28_Witness ==
  /\ ingPc = "done" /\ Len(ingLaws) = MaxLaws
  /\ stats.processed = 1 /\ stats.skipped = 1 /\ stats.failed = 1
  /\ failureLog[1].law = 1

\* the seed files a run has written
WrittenSeeds == {k \in DOMAIN seedFiles : seedFiles[k].state = "written"}

\* C29: resume.  With --resume a law whose seed file exists is counted as
\* skipped, is neither fetched nor parsed, and its seed file is left
\* unchanged; without --resume every existing seed file is deleted before
\* the first law is ingested, so that after the run the seed directory holds
\* seeds only for laws processed in that run.
C29_Resume ==
  /\ [][ (resume /\ ingPc = "loop" /\ idx < Len(ingLaws) /\ seedFiles[idx + 1] # SeedAbsent) =>
           /\ stats' = [stats EXCEPT !.skipped = @ + 1]
           /\ idx' = idx + 1
           /\ fetched' = fetched /\ ingPc' # "fetched"
           /\ failureLog' = failureLog ]_vars
  /\ [][ resume => \A k \in DOMAIN seedFiles :
                     seedFiles[k] # SeedAbsent => seedFiles'[k] = seedFiles[k] ]_vars
  /\ []((~resume /\ ingPc # "main") =>
          /\ \A k \in DOMAIN seedFiles : seedFiles[k] # SeedOld
          /\ WrittenSeeds \subseteq 1..idx
          /\ Cardinality(WrittenSeeds) = stats.processed)

\* a resumed run that kept an old seed and wrote a new one
C29_Witness ==
  /\ resume /\ ingPc = "done" /\ stats.skipped >= 1
  /\ \E k \in 1..Len(ingLaws) : seedFiles[k] = SeedOld
  /\ WrittenSeeds # {}
  /\ seedFiles[Len(ingLaws) + 1] = SeedOld

\* a run without --resume that started with old seed files and ended with
\* the seeds of the laws it processed only
C29_WitnessCleared ==
  /\ ~resume /\ ingPc = "done" /\ stats.processed >= 1 /\ stats.failed >= 1
  /\ \A k \in DOMAIN seedFiles : seedFiles[k] # SeedOld

====
